---- MODULE Spec2Model ----
(***************************************************************************)
(* State-machine model of pkg/sentry/kernel/kernel.go: the running-task    *)
(* accounting, the Pause/Unpause protocol, Start, SaveTo and LoadFrom.     *)
(*                                                                         *)
(* The module holds several specifications over one set of variables; each *)
(* specification moves only its own group of variables and leaves the      *)
(* others at their initial values.                                         *)
(*   SpecRunning : incRunningTasks / decRunningTasks and the CPU clock     *)
(*                 ticker                                                  *)
(*   SpecKernel  : CreateProcess, StartProcess, Start, Pause, Unpause      *)
(*   SpecExt     : SpecKernel plus SaveTo and the other methods that lock  *)
(*                 extMu                                                   *)
(*   SpecSave    : SaveTo, saveMemoryFiles and savePrivateMFs on a paused  *)
(*                 kernel                                                  *)
(*   SpecLoad    : LoadFrom                                                *)
(*   SpecDec     : SpecRunning plus a decRunningTasks without a matching   *)
(*                 incRunningTasks                                         *)
(*   SpecTicker  : the CPU clock ticker goroutine, the task goroutines and *)
(*                 pauseTimeLocked / resumeTimeLocked                      *)
(*   SpecPauseTime, SpecPauseTimeFair : SpecTicker with fewer goroutines,  *)
(*                 without and with weak fairness                          *)
(*   SpecNProc   : UserCounters.incRLimitNProc / decRLimitNProc            *)
(*   SpecWaitExited, SpecWaitExitedFair : WaitExited and task creation     *)
(*   SpecCgroup  : PopulateNewCgroupHierarchy, ReleaseCgroupHierarchy      *)
(*   SpecLocks   : the locks taken by the methods, in program order        *)
(*   SpecContextLocks : CreateProcess and Start with the context lookups   *)
(*                 made under extMu                                        *)
(*   SpecSaveExternal : SaveTo next to GetUserCounters and the cgroup      *)
(*                 methods, which do not take extMu                        *)
(*   SpecRebuild, SpecRebuildFair : RebuildTraceContexts                   *)
(*   SpecHierarchy : the cgroup methods with the reference drops of        *)
(*                 ReleaseCgroupHierarchy, one hierarchy being either      *)
(*                 populated or released                                   *)
(* and smaller specifications for CreateProcess, the signal senders, the   *)
(* ID generators, Init and the save-error and socket registries.           *)
(***************************************************************************)
EXTENDS Integers, Sequences, FiniteSets, TLC

(***************************************************************************)
(* Bounds of the model.                                                    *)
(***************************************************************************)
\* Number of task goroutines calling incRunningTasks / decRunningTasks.
NumGoroutines == 3
\* Cap on the number of ticks the tick timer delivers.
MaxTicks == 2
\* Number of tasks (each the leader of its own thread group) CreateProcess
\* can create.
NumTasks == 2
\* Number of goroutines outside the kernel's control that call its methods.
NumCallers == 2
\* Cap on the number of Pause calls in one behaviour.
MaxPauseCalls == 2
\* Cap on the number of Start calls in one behaviour.
MaxStartCalls == 2
\* Cap on the number of asynchronous I/O goroutines in flight.
MaxAIO == 1
\* Number of filesystems that may own a private memory file.
NumOwners == 2
\* calls of the registry and signal methods
MaxExtCalls == 1
\* Thread groups in the task set when signals are sent to groups of them.
NumThreadGroups == 4
\* Group signal calls made.
MaxSignalCalls == 1
\* Width in bits of the identifier counters (64 for uniqueID and 32 for
\* nextInotifyCookie in the code).
CounterBits == 3
\* Init calls made on one Kernel.
MaxInitCalls == 1
\* Calls made on the socket table and the save status.
MaxRegistryCalls == 4
\* application cores
MaxCores == 2

Goroutines == 1..NumGoroutines
Tasks == 1..NumTasks
Callers == 1..NumCallers
Owners == 1..NumOwners

\* The sequences that list every element of the finite set S exactly once.
Perms(S) ==
    {q \in [1..Cardinality(S) -> S] :
        \A i, j \in 1..Cardinality(S) : i # j => q[i] # q[j]}

\* The value of a mutex that nobody holds.
Free == 0

\* linux.ClockTick in nanoseconds, scaled down.
ClockTick == 3

\* Number of task goroutines on the kernel whose time is paused.
NumPausedTasks == 2

\* The largest process-count limit (lim.Cur) a context carries.
MaxLimit == 1

\* The largest process count followed.
MaxNProc == 3

\* Number of task creations followed.
MaxNewTasks == 4

\* Number of cgroup hierarchies.
NumHierarchies == 2

\* Number of user IDs GetUserCounters is called with.
NumUIDs == 2

\* The longest time, in nanoseconds, between the firing of a tick and its
\* consumption by incRunningTasks.
MaxMissedNS == 7

VARIABLES
    \* ---- running-task accounting (Kernel fields, kernel.go:204-244) ----
    runningTasks,           \* k.runningTasks (atomic Int64)
    runningTasksMu,         \* k.runningTasksMu: Free or the goroutine holding it
    cpuClockTickerRunning,  \* k.cpuClockTickerRunning
    cpuClock,               \* k.cpuClock
    tickPending,            \* a tick is waiting in k.cpuClockTickTimer.C
    ticksFired,             \* number of ticks the timer has delivered so far
    gpc,                    \* position of each task goroutine
    tasksLoaded,            \* the local "tasks" of each incRunningTasks call
    tickTimer,              \* k.cpuClockTickTimer: the duration it was last
                            \*   armed with, the missedNS it was computed
                            \*   from (0 for a whole ClockTick), and the ticks
                            \*   incRunningTasks took since the ticker last
                            \*   parked
    \* ---- kernel lifecycle ----
    extMu,                  \* k.extMu: Free or the caller holding it
    started,                \* k.started
    stopCount,              \* k.tasks.stopCount, the external-stop nesting count
    tstate,                 \* each task: "none", "created", "running",
                            \*   "stopped", "exited"
    taskStarts,             \* number of Task.Start calls made for each task
    aioGoroutines,          \* k.tasks.aioGoroutines: async I/O in flight
    tickerLaunches,         \* number of "go k.runCPUClockTicker()" executed
    timePaused,             \* timers and Timekeeper updates are paused
    cpc,                    \* position of each external caller
    pausesReturned,         \* Pause calls that returned and are not yet unpaused
    pauseCalls,             \* number of Pause calls made
    unpauseCalls,           \* number of Unpause calls made
    startOk,                \* number of Start calls that returned nil
    startErr,               \* number of Start calls that returned an error
    \* ---- SaveTo ----
    saveEnv,                \* what a SaveTo call is given: its stream arguments,
                            \*   whether a network stack is present, and the
                            \*   private memory files PrepareSave collects
    faults,                 \* which collaborator calls fail during SaveTo
    save,                   \* the locals and effects of the SaveTo call in
                            \*   progress (or of the last one)
    \* ---- state protected by extMu besides the lifecycle ----
    ext,                    \* sockets, container names, save status, signals
    \* ---- LoadFrom ----
    load,                   \* the Kernel fields LoadFrom touches, its
                            \*   arguments, the stream and its position
    \* ---- CreateProcess ----
    proc,                   \* k.globalInit, the thread group each
                            \*   CreateProcess call allocated, and what the
                            \*   call returned
    \* ---- identifier generators ----
    ids,                    \* k.uniqueID, k.nextInotifyCookie, the position
                            \*   of each GenerateInotifyCookie call and the
                            \*   values returned so far
    \* ---- Init ----
    kinit,                  \* the Kernel fields Init assigns, what the Init
                            \*   call returned and the number of calls
    \* ---- UserCounters ----
    uc,                     \* rlimitNProc of one UserCounters, the position
                            \*   of each incRLimitNProc call and what the
                            \*   calls returned
    \* ---- the task set ----
    tset,                   \* k.tasks: its mutex, liveTasks,
                            \*   noNewTasksIfZeroLive and each WaitExited call
    cg,                     \* each task's exit state and cgroups, and the
                            \*   hierarchy walk in progress
    \* ---- pausing time ----
    pt,                     \* the CPU clock ticker goroutine, the wake
                            \*   channel and the pauseTimeLocked call
    \* ---- lock order ----
    lk                      \* the locks held, and for each caller the
                            \*   locking steps of its operation, its position
                            \*   in them and the locks it holds in the order
                            \*   it took them

runVars == <<runningTasks, runningTasksMu, cpuClockTickerRunning, cpuClock,
             tickPending, ticksFired, gpc, tasksLoaded, tickTimer>>

kernVars == <<extMu, started, stopCount, tstate, taskStarts, aioGoroutines,
              tickerLaunches, timePaused, cpc, pausesReturned, pauseCalls,
              unpauseCalls, startOk, startErr>>

saveVars == <<saveEnv, faults, save>>

extVars == <<ext>>

loadVars == <<load>>

procVars == <<proc>>

idVars == <<ids>>

initVars == <<kinit>>

restVars == <<uc, tset, cg, pt, lk>>

vars == <<runVars, kernVars, saveVars, extVars, loadVars, procVars, idVars,
          initVars, restVars>>

\* What an action of one group leaves alone.
KeepRun == UNCHANGED runVars
KeepKernel == UNCHANGED kernVars
KeepSave == UNCHANGED saveVars
KeepExt == UNCHANGED extVars
KeepLoad == UNCHANGED loadVars
KeepProc == UNCHANGED procVars
KeepIds == UNCHANGED idVars
KeepInit == UNCHANGED initVars
KeepRest == UNCHANGED restVars
RunRest ==
    KeepKernel /\ KeepSave /\ KeepExt /\ KeepLoad /\ KeepProc /\ KeepIds /\ KeepInit
    /\ KeepRest
RunFrame == RunRest /\ UNCHANGED tickTimer
KernFrame ==
    KeepRun /\ KeepSave /\ KeepExt /\ KeepLoad /\ KeepProc /\ KeepIds /\ KeepInit
    /\ KeepRest
SaveFrame == KeepRun /\ KeepExt /\ KeepLoad /\ KeepProc /\ KeepIds /\ KeepInit
    /\ KeepRest

(***************************************************************************)
(* Running-task accounting.                                                *)
(*                                                                         *)
(* Positions of a task goroutine:                                          *)
(*   "blocked"  not running, outside any call                              *)
(*   "load"     in incRunningTasks, at the head of the for loop            *)
(*   "cas"      loaded a nonzero count, about to CompareAndSwap            *)
(*   "lock"     loaded zero, about to lock runningTasksMu                  *)
(*   "recheck"  holds runningTasksMu, about to re-load the count           *)
(*   "lostadd"  holds the mutex, lost the race, about to Add(1)            *)
(*   "ticker"   holds the mutex, count is zero, about to look at the ticker*)
(*   "store"    holds the mutex, about to Store(1)                         *)
(*   "unlock"   holds the mutex, increment done, about to unlock           *)
(*   "running"  incRunningTasks has returned; the task is executing        *)
(*   "panicked" decRunningTasks panicked                                   *)
(***************************************************************************)
RunInit ==
    /\ runningTasks = 0
    /\ runningTasksMu = Free
    /\ cpuClockTickerRunning = TRUE   \* set by Start before any task runs
    /\ cpuClock = 0
    /\ tickPending = FALSE
    /\ ticksFired = 0
    /\ gpc = [g \in Goroutines |-> "blocked"]
    /\ tasksLoaded = [g \in Goroutines |-> 0]
    /\ tickTimer = [armed |-> ClockTick, missedNS |-> 0, taken |-> 0]

\* A blocked task goroutine becomes runnable and calls incRunningTasks.
IncCall(g) ==
    /\ gpc[g] = "blocked"
    /\ gpc' = [gpc EXCEPT ![g] = "load"]
    /\ UNCHANGED <<runningTasks, runningTasksMu, cpuClockTickerRunning,
                   cpuClock, tickPending, ticksFired, tasksLoaded>>
    /\ RunFrame

\* tasks := k.runningTasks.Load(); if tasks != 0 {...}
IncLoad(g) ==
    /\ gpc[g] = "load"
    /\ tasksLoaded' = [tasksLoaded EXCEPT ![g] = runningTasks]
    /\ gpc' = [gpc EXCEPT ![g] = IF runningTasks # 0 THEN "cas" ELSE "lock"]
    /\ UNCHANGED <<runningTasks, runningTasksMu, cpuClockTickerRunning,
                   cpuClock, tickPending, ticksFired>>
    /\ RunFrame

\* A CompareAndSwap that ignores the comparison (a plain store of tasks+1).
IncCAS_Blind(g) ==
    /\ gpc[g] = "cas"
    /\ runningTasks' = tasksLoaded[g] + 1
    /\ gpc' = [gpc EXCEPT ![g] = "running"]
    /\ UNCHANGED <<runningTasksMu, cpuClockTickerRunning, cpuClock,
                   tickPending, ticksFired, tasksLoaded>>
    /\ RunFrame

\* if !k.runningTasks.CompareAndSwap(tasks, tasks+1) { continue }; return
IncCAS(g) ==
    /\ gpc[g] = "cas"
    /\ IF runningTasks = tasksLoaded[g]
          THEN /\ runningTasks' = tasksLoaded[g] + 1
               /\ gpc' = [gpc EXCEPT ![g] = "running"]
          ELSE /\ runningTasks' = runningTasks
               /\ gpc' = [gpc EXCEPT ![g] = "load"]
    /\ UNCHANGED <<runningTasksMu, cpuClockTickerRunning, cpuClock,
                   tickPending, ticksFired, tasksLoaded>>
    /\ RunFrame

\* k.runningTasksMu.Lock()
IncLock(g) ==
    /\ gpc[g] = "lock"
    /\ runningTasksMu = Free
    /\ runningTasksMu' = g
    /\ gpc' = [gpc EXCEPT ![g] = "recheck"]
    /\ UNCHANGED <<runningTasks, cpuClockTickerRunning, cpuClock,
                   tickPending, ticksFired, tasksLoaded>>
    /\ RunFrame

\* if k.runningTasks.Load() != 0 { ... }
IncRecheck(g) ==
    /\ gpc[g] = "recheck"
    /\ gpc' = [gpc EXCEPT ![g] = IF runningTasks # 0 THEN "lostadd" ELSE "ticker"]
    /\ UNCHANGED <<runningTasks, runningTasksMu, cpuClockTickerRunning,
                   cpuClock, tickPending, ticksFired, tasksLoaded>>
    /\ RunFrame

\* The lost-race branch storing 1 instead of adding 1.
IncLostAdd_Store(g) ==
    /\ gpc[g] = "lostadd"
    /\ runningTasks' = 1
    /\ gpc' = [gpc EXCEPT ![g] = "unlock"]
    /\ UNCHANGED <<runningTasksMu, cpuClockTickerRunning, cpuClock,
                   tickPending, ticksFired, tasksLoaded>>
    /\ RunFrame

\* Raced with another transition and lost: k.runningTasks.Add(1)
IncLostAdd(g) ==
    /\ gpc[g] = "lostadd"
    /\ runningTasks' = runningTasks + 1
    /\ gpc' = [gpc EXCEPT ![g] = "unlock"]
    /\ UNCHANGED <<runningTasksMu, cpuClockTickerRunning, cpuClock,
                   tickPending, ticksFired, tasksLoaded>>
    /\ RunFrame

\* A timer re-armed without discarding the whole ticks missed.
ResetDuration_NoMod(missedNS) == ClockTick - missedNS

\* missedTicks := missedNS / ClockTick; thisTickNS := missedNS -
\* missedTicks*ClockTick; the timer is reset to ClockTick - thisTickNS
\* (kernel.go:1325-1328). Go's integer division truncates toward zero.
Quot(a, b) == IF a >= 0 THEN a \div b ELSE -((-a) \div b)
ResetDuration(missedNS) ==
    ClockTick - (missedNS - Quot(missedNS, ClockTick) * ClockTick)

\* if !k.cpuClockTickerRunning { select { case <-k.cpuClockTickTimer.C: ...
\* k.cpuClock.Add(1); default: }; k.cpuClockTickerRunning = true;
\* k.runningTasksCond.Signal() }
\* The zero-to-one transition adding the whole ticks missed to cpuClock.
IncTicker_WholeTicks(g, missedNS) ==
    /\ gpc[g] = "ticker"
    /\ IF ~cpuClockTickerRunning
          THEN /\ IF tickPending
                     THEN /\ tickPending' = FALSE
                          /\ tickTimer' = [armed |-> ResetDuration(missedNS),
                                           missedNS |-> missedNS,
                                           taken |-> tickTimer.taken + 1]
                          /\ cpuClock' =
                                cpuClock + 1 + Quot(missedNS, ClockTick)
                     ELSE UNCHANGED <<tickPending, tickTimer, cpuClock>>
               /\ cpuClockTickerRunning' = TRUE
          ELSE UNCHANGED <<tickPending, tickTimer, cpuClock,
                           cpuClockTickerRunning>>
    /\ gpc' = [gpc EXCEPT ![g] = "store"]
    /\ UNCHANGED <<runningTasks, runningTasksMu, ticksFired, tasksLoaded>>
    /\ RunRest

\* The zero-to-one transition taking a pending tick whether or not the
\* ticker is running.
IncTicker_Always(g, missedNS) ==
    /\ gpc[g] = "ticker"
    /\ IF tickPending
          THEN /\ tickPending' = FALSE
               /\ tickTimer' = [armed |-> ResetDuration(missedNS),
                                missedNS |-> missedNS,
                                taken |-> tickTimer.taken + 1]
               /\ cpuClock' = cpuClock + 1
          ELSE UNCHANGED <<tickPending, tickTimer, cpuClock>>
    /\ cpuClockTickerRunning' = TRUE
    /\ gpc' = [gpc EXCEPT ![g] = "store"]
    /\ UNCHANGED <<runningTasks, runningTasksMu, ticksFired, tasksLoaded>>
    /\ RunRest

\* The zero-to-one transition without "k.cpuClockTickerRunning = true".
IncTicker_NoFlag(g, missedNS) ==
    /\ gpc[g] = "ticker"
    /\ IF ~cpuClockTickerRunning /\ tickPending
          THEN /\ tickPending' = FALSE
               /\ tickTimer' = [armed |-> ResetDuration(missedNS),
                                missedNS |-> missedNS,
                                taken |-> tickTimer.taken + 1]
               /\ cpuClock' = cpuClock + 1
          ELSE UNCHANGED <<tickPending, tickTimer, cpuClock>>
    /\ gpc' = [gpc EXCEPT ![g] = "store"]
    /\ UNCHANGED <<runningTasks, runningTasksMu, ticksFired, tasksLoaded,
                   cpuClockTickerRunning>>
    /\ RunRest

\* missedNS = time.Since(tickTime).Nanoseconds() is an input: the time since
\* the pending tick fired.
IncTicker(g, missedNS) ==
    /\ gpc[g] = "ticker"
    /\ IF ~cpuClockTickerRunning
          THEN /\ IF tickPending
                     THEN /\ tickPending' = FALSE
                          /\ tickTimer' = [armed |-> ResetDuration(missedNS),
                                           missedNS |-> missedNS,
                                           taken |-> tickTimer.taken + 1]
                          /\ cpuClock' = cpuClock + 1
                     ELSE UNCHANGED <<tickPending, tickTimer, cpuClock>>
               /\ cpuClockTickerRunning' = TRUE
          ELSE UNCHANGED <<tickPending, tickTimer, cpuClock,
                           cpuClockTickerRunning>>
    /\ gpc' = [gpc EXCEPT ![g] = "store"]
    /\ UNCHANGED <<runningTasks, runningTasksMu, ticksFired, tasksLoaded>>
    /\ RunRest

\* k.runningTasks.Store(1)
IncStore(g) ==
    /\ gpc[g] = "store"
    /\ runningTasks' = 1
    /\ gpc' = [gpc EXCEPT ![g] = "unlock"]
    /\ UNCHANGED <<runningTasksMu, cpuClockTickerRunning, cpuClock,
                   tickPending, ticksFired, tasksLoaded>>
    /\ RunFrame

\* k.runningTasksMu.Unlock(); return
IncUnlock(g) ==
    /\ gpc[g] = "unlock"
    /\ runningTasksMu' = Free
    /\ gpc' = [gpc EXCEPT ![g] = "running"]
    /\ UNCHANGED <<runningTasks, cpuClockTickerRunning, cpuClock,
                   tickPending, ticksFired, tasksLoaded>>
    /\ RunFrame

\* A decRunningTasks that returns whatever the new count is.
decRunningTasksAt_NoPanic(g, from) ==
    /\ gpc[g] = from
    /\ runningTasks' = runningTasks - 1
    /\ gpc' = [gpc EXCEPT ![g] = "blocked"]
    /\ UNCHANGED <<runningTasksMu, cpuClockTickerRunning, cpuClock,
                   tickPending, ticksFired, tasksLoaded>>
    /\ RunFrame

\* decRunningTasks, called by a goroutine at position from:
\* tasks := k.runningTasks.Add(-1); if tasks < 0 { panic(...) }
\* The panic ends the goroutine (and the program) after the Add.
decRunningTasksAt(g, from) ==
    /\ gpc[g] = from
    /\ runningTasks' = runningTasks - 1
    /\ gpc' = [gpc EXCEPT ![g] = IF runningTasks - 1 < 0 THEN "panicked"
                                                         ELSE "blocked"]
    /\ UNCHANGED <<runningTasksMu, cpuClockTickerRunning, cpuClock,
                   tickPending, ticksFired, tasksLoaded>>
    /\ RunFrame

\* decRunningTasks, called by a task whose incRunningTasks has returned.
decRunningTasks(g) == decRunningTasksAt(g, "running")

\* decRunningTasks, called by a goroutine that made no matching
\* incRunningTasks call.
UnmatchedDec(g) == decRunningTasksAt(g, "blocked")

\* No goroutine has panicked: the program is still running.
Alive == \A g \in Goroutines : gpc[g] # "panicked"

\* The tick timer fires: a tick becomes available in cpuClockTickTimer.C
\* (a channel of capacity 1).
TimerFire ==
    /\ ~tickPending
    /\ ticksFired < MaxTicks
    /\ tickPending' = TRUE
    /\ ticksFired' = ticksFired + 1
    /\ UNCHANGED <<runningTasks, runningTasksMu, cpuClockTickerRunning,
                   cpuClock, gpc, tasksLoaded>>
    /\ RunFrame

\* The CPU clock ticker goroutine, with nothing running: under
\* runningTasksMu it sees a zero count, clears cpuClockTickerRunning and
\* parks in runningTasksCond.Wait().
TickerPark ==
    /\ cpuClockTickerRunning
    /\ runningTasksMu = Free
    /\ runningTasks = 0
    /\ cpuClockTickerRunning' = FALSE
    /\ tickTimer' = [tickTimer EXCEPT !.taken = 0]
    /\ UNCHANGED <<runningTasks, runningTasksMu, cpuClock, tickPending,
                   ticksFired, gpc, tasksLoaded>>
    /\ RunRest

\* The CPU clock ticker goroutine, running: it takes a tick from the timer
\* and advances the CPU clock.
TickerTick ==
    /\ cpuClockTickerRunning
    /\ tickPending
    /\ tickPending' = FALSE
    /\ tickTimer' = [tickTimer EXCEPT !.armed = ClockTick, !.missedNS = 0]
    /\ cpuClock' = cpuClock + 1
    /\ UNCHANGED <<runningTasks, runningTasksMu, cpuClockTickerRunning,
                   ticksFired, gpc, tasksLoaded>>
    /\ RunRest

incRunningTasks(g) ==
    \/ IncCall(g)
    \/ IncLoad(g)
    \/ IncCAS(g)
    \/ IncLock(g)
    \/ IncRecheck(g)
    \/ IncLostAdd(g)
    \/ \E missedNS \in 0..MaxMissedNS : IncTicker(g, missedNS)
    \/ IncStore(g)
    \/ IncUnlock(g)

RunNext ==
    \/ \E g \in Goroutines : incRunningTasks(g)
    \/ \E g \in Goroutines : decRunningTasks(g)
    \/ TimerFire
    \/ TickerPark
    \/ TickerTick

\* The same with decRunningTasks calls that match no incRunningTasks call,
\* until a panic ends the program.
DecNext ==
    \/ \E g \in Goroutines : Alive /\ incRunningTasks(g)
    \/ \E g \in Goroutines : Alive /\ decRunningTasks(g)
    \/ \E g \in Goroutines : Alive /\ UnmatchedDec(g)
    \/ Alive /\ TimerFire
    \/ Alive /\ TickerPark
    \/ Alive /\ TickerTick

(***************************************************************************)
(* Kernel lifecycle: Start, CreateProcess, StartProcess, Pause, Unpause.   *)
(*                                                                         *)
(* Every method that locks extMu for its whole body and cannot block       *)
(* inside it is one action enabled when extMu is free; Start and SaveTo,   *)
(* whose bodies take several steps, hold extMu in the variable.            *)
(*                                                                         *)
(* Positions of an external caller:                                        *)
(*   "idle"              outside any call                                  *)
(*   "Start"             in Start, holding extMu                           *)
(*   "PauseWaitRunning"  in Pause, at k.tasks.runningGoroutines.Wait()     *)
(*   "PauseWaitAIO"      in Pause, at k.tasks.aioGoroutines.Wait()         *)
(*   "Unpause"           in Unpause, at k.extMu.Lock()                     *)
(*   "SaveTo"            in SaveTo, holding extMu                          *)
(***************************************************************************)
\* The state after construction (Init or LoadFrom, before Start): no task,
\* nothing started, not paused.
KernInit ==
    /\ extMu = Free
    /\ started = FALSE
    /\ stopCount = 0
    /\ tstate = [t \in Tasks |-> "none"]
    /\ taskStarts = [t \in Tasks |-> 0]
    /\ aioGoroutines = 0
    /\ tickerLaunches = 0
    /\ timePaused = FALSE
    /\ cpc = [c \in Callers |-> "idle"]
    /\ pausesReturned = 0
    /\ pauseCalls = 0
    /\ unpauseCalls = 0
    /\ startOk = 0
    /\ startErr = 0

\* The lifecycle variables after every task was created and one Start call
\* has started them.
KernStarted ==
    /\ extMu = Free
    /\ started = TRUE
    /\ stopCount = 0
    /\ tstate = [t \in Tasks |-> "running"]
    /\ taskStarts = [t \in Tasks |-> 1]
    /\ aioGoroutines = 0
    /\ tickerLaunches = 1
    /\ timePaused = FALSE
    /\ cpc = [c \in Callers |-> "idle"]
    /\ pausesReturned = 0
    /\ pauseCalls = 0
    /\ unpauseCalls = 0
    /\ startOk = 1
    /\ startErr = 0

\* The tasks registered in the task set (k.tasks.Root.tids).
tids == {t \in DOMAIN tstate : tstate[t] \in {"created", "running", "stopped"}}

\* k.tasks.runningGoroutines: the task goroutines that are running.
runningGoroutines == Cardinality({t \in Tasks : tstate[t] = "running"})

\* TaskSet.isExternallyStopped
isExternallyStopped == stopCount > 0

\* Task.Start applied to the tasks in ts: the goroutine of a task that has
\* none yet is launched; under an external stop it is stopped from the
\* outset and does not execute.
TaskStart(ts) ==
    /\ taskStarts' = [t \in Tasks |->
                        IF t \in ts THEN taskStarts[t] + 1 ELSE taskStarts[t]]
    /\ tstate' = [t \in Tasks |->
                    IF t \in ts /\ tstate[t] = "created"
                       THEN (IF stopCount > 0 THEN "stopped" ELSE "running")
                       ELSE tstate[t]]

\* TaskSet.BeginExternalStop: one more level of external stop. Running tasks
\* are asked to stop and do so at their next quiescent point (TaskStop).
BeginExternalStop ==
    stopCount' = stopCount + 1

\* TaskSet.EndExternalStop: one level less; at zero every stopped task is
\* released.
EndExternalStop ==
    /\ stopCount' = stopCount - 1
    /\ tstate' = [t \in Tasks |->
                    IF stopCount - 1 = 0 /\ tstate[t] = "stopped"
                       THEN "running" ELSE tstate[t]]

\* The arguments of CreateProcess that decide its path, and the
\* collaborator call that fails: MountNamespace nil or not, WorkingDirectory
\* empty, found or not found, Filename empty or not, File nil or not, Argv
\* empty or with a relative or absolute first element, TTY nil, accepted or
\* refused, and a failing LoadTaskImage, UpdateCredsForNewTask or NewTask.
CreateArgs ==
    [mntns : BOOLEAN, wd : {"", "found", "notfound"}, filename : BOOLEAN,
     file : BOOLEAN, argv : {"empty", "relative", "absolute"},
     tty : {"nil", "ok", "refused"},
     fault : {"none", "image", "creds", "newtask"}]

\* Arguments without any failing collaborator.
PlainArgs(mntns, argv, tty) ==
    [mntns |-> mntns, wd |-> "", filename |-> FALSE, file |-> FALSE,
     argv |-> argv, tty |-> tty, fault |-> "none"]

\* The arguments the lifecycle specifications call CreateProcess with: a
\* call that succeeds.
LifecycleArgs == {PlainArgs(TRUE, "absolute", "nil")}

\* The references a CreateProcess call takes for the task's configuration:
\* args.FDTable.IncRef() (kernel.go:1127) and the IncRef of the UTS, IPC and
\* network namespaces (1149-1151).
TaskRefs == {"fdtable", "uts", "ipc", "net"}

\* No CreateProcess call was made: globalInit is nil (0).
ProcInit ==
    proc = [globalInit |-> 0,
            tg |-> [t \in Tasks |-> "none"],
            ret |-> [t \in Tasks |-> "none"],
            refs |-> [t \in Tasks |-> {}]]

\* Every task was created by a successful CreateProcess call, task 1 first.
ProcCreated ==
    proc = [globalInit |-> 1,
            tg |-> [t \in Tasks |-> "live"],
            ret |-> [t \in Tasks |-> "ok"],
            refs |-> [t \in Tasks |-> TaskRefs]]

\* What CreateProcess returns for args: the first failing check in the order
\* of the code, or "ok".
CreateResult(args) ==
    IF ~args.mntns /\ proc.globalInit = 0 THEN "err.mntns"
    ELSE IF args.wd = "notfound" THEN "err.wd"
    ELSE IF ~args.filename /\ ~args.file /\ args.argv = "empty" THEN "err.nofile"
    ELSE IF ~args.filename /\ ~args.file /\ args.argv = "relative" THEN "err.notabs"
    ELSE IF args.fault = "image" THEN "err.image"
    ELSE IF args.fault = "creds" THEN "err.creds"
    ELSE IF args.fault = "newtask" THEN "err.newtask"
    ELSE IF args.tty = "refused" THEN "err.tty"
    ELSE "ok"

\* The results with which CreateProcess returns before k.NewThreadGroup.
BeforeThreadGroup == {"err.mntns", "err.wd"}

\* The results with which CreateProcess returns after k.tasks.NewTask has
\* created the task.
AfterNewTask == {"err.tty", "ok"}

\* The reference on the init mount namespace, taken when args.MountNamespace
\* is nil (kernel.go:1042-1049).
MntnsRef(args) == IF args.mntns THEN {} ELSE {"mntns"}

\* The references a CreateProcess call has taken and not dropped when it
\* returns r. No return path of CreateProcess calls mntns.DecRef: the
\* deferred calls are root.DecRef, wd.DecRef and the cleanup tg.Release,
\* and the thread group was never given the mount namespace. The IncRefs of
\* TaskRefs come after the last failure before k.tasks.NewTask. A failing
\* NewTask is taken to release everything in the TaskConfig it was given;
\* after NewTask the task holds them.
HeldRefs(args, r) ==
    IF r = "err.mntns" \/ r = "err.newtask" THEN {}
    ELSE IF r \in AfterNewTask THEN MntnsRef(args) \cup TaskRefs
    ELSE MntnsRef(args)

\* A CreateProcess that starts the task it creates.
CreateProcess_Starts(c, t, args) ==
    /\ cpc[c] = "idle"
    /\ extMu = Free
    /\ tstate[t] = "none"
    /\ proc.ret[t] = "none"
    /\ LET r == CreateResult(args) IN
       /\ tstate' = [tstate EXCEPT ![t] = IF r \in AfterNewTask
                                             THEN "running" ELSE "none"]
       /\ taskStarts' = [taskStarts EXCEPT ![t] = IF r \in AfterNewTask
                                                     THEN @ + 1 ELSE @]
       /\ proc' = [proc EXCEPT
                     !.ret[t] = r,
                     !.refs[t] = HeldRefs(args, r),
                     !.tg[t] = IF r \in BeforeThreadGroup THEN "none"
                               ELSE IF r = "ok" THEN "live" ELSE "released",
                     !.globalInit = IF r = "ok" /\ @ = 0 THEN t ELSE @]
    /\ UNCHANGED <<extMu, started, stopCount, aioGoroutines,
                   tickerLaunches, timePaused, cpc, pausesReturned,
                   pauseCalls, unpauseCalls, startOk, startErr>>
    /\ KeepRun /\ KeepSave /\ KeepExt /\ KeepLoad /\ KeepIds /\ KeepInit
    /\ KeepRest

\* A CreateProcess whose cleanup is never run.
CreateProcess_NoCleanup(c, t, args) ==
    /\ cpc[c] = "idle"
    /\ extMu = Free
    /\ tstate[t] = "none"
    /\ proc.ret[t] = "none"
    /\ LET r == CreateResult(args) IN
       /\ tstate' = [tstate EXCEPT ![t] = IF r \in AfterNewTask
                                             THEN "created" ELSE "none"]
       /\ proc' = [proc EXCEPT
                     !.ret[t] = r,
                     !.refs[t] = HeldRefs(args, r),
                     !.tg[t] = IF r \in BeforeThreadGroup THEN "none" ELSE "live",
                     !.globalInit = IF r = "ok" /\ @ = 0 THEN t ELSE @]
    /\ UNCHANGED <<extMu, started, stopCount, taskStarts, aioGoroutines,
                   tickerLaunches, timePaused, cpc, pausesReturned,
                   pauseCalls, unpauseCalls, startOk, startErr>>
    /\ KeepRun /\ KeepSave /\ KeepExt /\ KeepLoad /\ KeepIds /\ KeepInit
    /\ KeepRest

\* A CreateProcess that makes every thread group it creates the global init.
CreateProcess_AlwaysInit(c, t, args) ==
    /\ cpc[c] = "idle"
    /\ extMu = Free
    /\ tstate[t] = "none"
    /\ proc.ret[t] = "none"
    /\ LET r == CreateResult(args) IN
       /\ tstate' = [tstate EXCEPT ![t] = IF r \in AfterNewTask
                                             THEN "created" ELSE "none"]
       /\ proc' = [proc EXCEPT
                     !.ret[t] = r,
                     !.refs[t] = HeldRefs(args, r),
                     !.tg[t] = IF r \in BeforeThreadGroup THEN "none"
                               ELSE IF r = "ok" THEN "live" ELSE "released",
                     !.globalInit = IF r = "ok" THEN t ELSE @]
    /\ UNCHANGED <<extMu, started, stopCount, taskStarts, aioGoroutines,
                   tickerLaunches, timePaused, cpc, pausesReturned,
                   pauseCalls, unpauseCalls, startOk, startErr>>
    /\ KeepRun /\ KeepSave /\ KeepExt /\ KeepLoad /\ KeepIds /\ KeepInit
    /\ KeepRest

\* CreateProcess (kernel.go:1035-1172), under extMu from entry to return,
\* creating the thread group and task t. A call that fails before
\* k.NewThreadGroup allocates nothing; a later failure runs the cleanup,
\* which releases the thread group; k.tasks.NewTask registers the task in
\* the task set, not started; on success the cleanup is cancelled and a nil
\* globalInit is set to the new thread group.
CreateProcess(c, t, args) ==
    /\ cpc[c] = "idle"
    /\ extMu = Free
    /\ tstate[t] = "none"
    /\ proc.ret[t] = "none"
    /\ LET r == CreateResult(args) IN
       /\ tstate' = [tstate EXCEPT ![t] = IF r \in AfterNewTask
                                             THEN "created" ELSE "none"]
       /\ proc' = [proc EXCEPT
                     !.ret[t] = r,
                     !.refs[t] = HeldRefs(args, r),
                     !.tg[t] = IF r \in BeforeThreadGroup THEN "none"
                               ELSE IF r = "ok" THEN "live" ELSE "released",
                     !.globalInit = IF r = "ok" /\ @ = 0 THEN t ELSE @]
    /\ UNCHANGED <<extMu, started, stopCount, taskStarts, aioGoroutines,
                   tickerLaunches, timePaused, cpc, pausesReturned,
                   pauseCalls, unpauseCalls, startOk, startErr>>
    /\ KeepRun /\ KeepSave /\ KeepExt /\ KeepLoad /\ KeepIds /\ KeepInit
    /\ KeepRest

\* StartProcess (kernel.go:1175-1179), for a process created after Start:
\* t.Start(tid) on the leader. It does not take extMu.
StartProcess(t) ==
    /\ started
    /\ tstate[t] = "created"
    /\ TaskStart({t})
    /\ UNCHANGED <<extMu, started, stopCount, aioGoroutines, tickerLaunches,
                   timePaused, cpc, pausesReturned, pauseCalls, unpauseCalls,
                   startOk, startErr>>
    /\ KernFrame

\* Start: k.extMu.Lock()
Start_Lock(c) ==
    /\ cpc[c] = "idle"
    /\ extMu = Free
    /\ startOk + startErr + Cardinality({d \in Callers : cpc[d] = "Start"})
         < MaxStartCalls
    /\ extMu' = c
    /\ cpc' = [cpc EXCEPT ![c] = "Start"]
    /\ UNCHANGED <<started, stopCount, tstate, taskStarts, aioGoroutines,
                   tickerLaunches, timePaused, pausesReturned, pauseCalls,
                   unpauseCalls, startOk, startErr>>
    /\ KernFrame

\* A Start that does not look at k.started.
Start_Body_NoCheck(c) ==
    /\ cpc[c] = "Start"
    /\ extMu = c
    /\ started' = TRUE
    /\ tickerLaunches' = tickerLaunches + 1
    /\ cpuClockTickerRunning' = TRUE
    /\ timePaused' = FALSE
    /\ TaskStart(tids)
    /\ startOk' = startOk + 1
    /\ startErr' = startErr
    /\ extMu' = Free
    /\ cpc' = [cpc EXCEPT ![c] = "idle"]
    /\ UNCHANGED <<stopCount, aioGoroutines, pausesReturned, pauseCalls,
                   unpauseCalls>>
    /\ UNCHANGED <<runningTasks, runningTasksMu, cpuClock, tickPending,
                   ticksFired, gpc, tasksLoaded, tickTimer>>
    /\ KeepSave /\ KeepExt /\ KeepLoad /\ KeepProc /\ KeepIds /\ KeepInit
    /\ KeepRest

\* Start, from the check of k.started to the return (kernel.go:1188-1215):
\* a started kernel returns "kernel already started"; otherwise started is
\* set, the ticker goroutine is launched with cpuClockTickerRunning = true,
\* time is resumed and t.Start is called for every task in the task set.
\* The deferred k.extMu.Unlock() ends the call.
Start_Body(c) ==
    /\ cpc[c] = "Start"
    /\ extMu = c
    /\ IF started
          THEN /\ startErr' = startErr + 1
               /\ UNCHANGED <<started, tickerLaunches, cpuClockTickerRunning,
                              timePaused, taskStarts, tstate, startOk>>
          ELSE /\ started' = TRUE
               /\ tickerLaunches' = tickerLaunches + 1
               /\ cpuClockTickerRunning' = TRUE
               /\ timePaused' = FALSE
               /\ TaskStart(tids)
               /\ startOk' = startOk + 1
               /\ startErr' = startErr
    /\ extMu' = Free
    /\ cpc' = [cpc EXCEPT ![c] = "idle"]
    /\ UNCHANGED <<stopCount, aioGoroutines, pausesReturned, pauseCalls,
                   unpauseCalls>>
    /\ UNCHANGED <<runningTasks, runningTasksMu, cpuClock, tickPending,
                   ticksFired, gpc, tasksLoaded, tickTimer>>
    /\ KeepSave /\ KeepExt /\ KeepLoad /\ KeepProc /\ KeepIds /\ KeepInit
    /\ KeepRest

\* Pause: k.extMu.Lock(); k.tasks.BeginExternalStop(); k.extMu.Unlock()
Pause_Begin(c) ==
    /\ cpc[c] = "idle"
    /\ extMu = Free
    /\ pauseCalls < MaxPauseCalls
    /\ BeginExternalStop
    /\ pauseCalls' = pauseCalls + 1
    /\ cpc' = [cpc EXCEPT ![c] = "PauseWaitRunning"]
    /\ UNCHANGED <<extMu, started, tstate, taskStarts, aioGoroutines,
                   tickerLaunches, timePaused, pausesReturned, unpauseCalls,
                   startOk, startErr>>
    /\ KernFrame

\* A Pause that does not wait for the task goroutines.
Pause_WaitRunning_NoWait(c) ==
    /\ cpc[c] = "PauseWaitRunning"
    /\ cpc' = [cpc EXCEPT ![c] = "PauseWaitAIO"]
    /\ UNCHANGED <<extMu, started, stopCount, tstate, taskStarts,
                   aioGoroutines, tickerLaunches, timePaused, pausesReturned,
                   pauseCalls, unpauseCalls, startOk, startErr>>
    /\ KernFrame

\* Pause: k.tasks.runningGoroutines.Wait() returns.
Pause_WaitRunning(c) ==
    /\ cpc[c] = "PauseWaitRunning"
    /\ runningGoroutines = 0
    /\ cpc' = [cpc EXCEPT ![c] = "PauseWaitAIO"]
    /\ UNCHANGED <<extMu, started, stopCount, tstate, taskStarts,
                   aioGoroutines, tickerLaunches, timePaused, pausesReturned,
                   pauseCalls, unpauseCalls, startOk, startErr>>
    /\ KernFrame

\* Pause: k.tasks.aioGoroutines.Wait() returns, and Pause returns.
Pause_WaitAIO(c) ==
    /\ cpc[c] = "PauseWaitAIO"
    /\ aioGoroutines = 0
    /\ cpc' = [cpc EXCEPT ![c] = "idle"]
    /\ pausesReturned' = pausesReturned + 1
    /\ UNCHANGED <<extMu, started, stopCount, tstate, taskStarts,
                   aioGoroutines, tickerLaunches, timePaused, pauseCalls,
                   unpauseCalls, startOk, startErr>>
    /\ KernFrame

\* Unpause is called, matching a Pause call that has returned, and reaches
\* k.extMu.Lock().
Unpause_Call(c) ==
    /\ cpc[c] = "idle"
    /\ pausesReturned > Cardinality({d \in Callers : cpc[d] = "Unpause"})
    /\ cpc' = [cpc EXCEPT ![c] = "Unpause"]
    /\ UNCHANGED <<extMu, started, stopCount, tstate, taskStarts,
                   aioGoroutines, tickerLaunches, timePaused, pausesReturned,
                   pauseCalls, unpauseCalls, startOk, startErr>>
    /\ KernFrame

\* An Unpause that takes the lock and forgets k.tasks.EndExternalStop().
Unpause_Locked_NoEnd(c) ==
    /\ cpc[c] = "Unpause"
    /\ extMu = Free
    /\ pausesReturned' = pausesReturned - 1
    /\ unpauseCalls' = unpauseCalls + 1
    /\ cpc' = [cpc EXCEPT ![c] = "idle"]
    /\ UNCHANGED <<extMu, started, stopCount, tstate, taskStarts,
                   aioGoroutines, tickerLaunches, timePaused,
                   pauseCalls, startOk, startErr>>
    /\ KernFrame

\* Unpause, once extMu is free:
\* k.extMu.Lock(); defer k.extMu.Unlock(); k.tasks.EndExternalStop()
Unpause_Locked(c) ==
    /\ cpc[c] = "Unpause"
    /\ extMu = Free
    /\ EndExternalStop
    /\ pausesReturned' = pausesReturned - 1
    /\ unpauseCalls' = unpauseCalls + 1
    /\ cpc' = [cpc EXCEPT ![c] = "idle"]
    /\ UNCHANGED <<extMu, started, taskStarts, aioGoroutines,
                   tickerLaunches, timePaused, pauseCalls, startOk,
                   startErr>>
    /\ KernFrame

\* Unpause (kernel.go:1411-1415).
Unpause(c) ==
    \/ Unpause_Call(c)
    \/ Unpause_Locked(c)

\* A running task goroutine notices the requested stop at its next
\* quiescent point and leaves runningGoroutines.
TaskStop(t) ==
    /\ tstate[t] = "running"
    /\ stopCount > 0
    /\ tstate' = [tstate EXCEPT ![t] = "stopped"]
    /\ UNCHANGED <<extMu, started, stopCount, taskStarts, aioGoroutines,
                   tickerLaunches, timePaused, cpc, pausesReturned,
                   pauseCalls, unpauseCalls, startOk, startErr>>
    /\ KernFrame

\* A running task exits and leaves the task set.
TaskExit(t) ==
    /\ tstate[t] = "running"
    /\ tstate' = [tstate EXCEPT ![t] = "exited"]
    /\ UNCHANGED <<extMu, started, stopCount, taskStarts, aioGoroutines,
                   tickerLaunches, timePaused, cpc, pausesReturned,
                   pauseCalls, unpauseCalls, startOk, startErr>>
    /\ KernFrame

\* A running task submits an asynchronous I/O operation.
AIOStart(t) ==
    /\ tstate[t] = "running"
    /\ aioGoroutines < MaxAIO
    /\ aioGoroutines' = aioGoroutines + 1
    /\ UNCHANGED <<extMu, started, stopCount, tstate, taskStarts,
                   tickerLaunches, timePaused, cpc, pausesReturned,
                   pauseCalls, unpauseCalls, startOk, startErr>>
    /\ KernFrame

\* An asynchronous I/O operation completes.
AIODone ==
    /\ aioGoroutines > 0
    /\ aioGoroutines' = aioGoroutines - 1
    /\ UNCHANGED <<extMu, started, stopCount, tstate, taskStarts,
                   tickerLaunches, timePaused, cpc, pausesReturned,
                   pauseCalls, unpauseCalls, startOk, startErr>>
    /\ KernFrame

(***************************************************************************)
(* RebuildTraceContexts (kernel.go:1485-1500).                             *)
(*                                                                         *)
(* k.Pause(); defer k.Unpause(); k.extMu.Lock(); defer k.extMu.Unlock();   *)
(* k.tasks.mu.RLock(); defer k.tasks.mu.RUnlock(); the loop over the       *)
(* tasks. The deferred calls run in reverse order: RUnlock, extMu.Unlock,  *)
(* Unpause. Positions of the caller: "RebuildWaitRunning" and              *)
(* "RebuildWaitAIO" inside Pause, "RebuildLock" at k.extMu.Lock(),         *)
(* "RebuildBody" holding extMu, "RebuildUnpause" at the k.extMu.Lock() of  *)
(* the deferred Unpause. The Pause of a RebuildTraceContexts call is       *)
(* matched by its own Unpause and is not counted in pausesReturned, which  *)
(* counts the pauses other callers may end.                                *)
(***************************************************************************)
\* k.Pause(): k.extMu.Lock(); k.tasks.BeginExternalStop(); k.extMu.Unlock()
Rebuild_Pause(c) ==
    /\ cpc[c] = "idle"
    /\ extMu = Free
    /\ pauseCalls < MaxPauseCalls
    /\ BeginExternalStop
    /\ pauseCalls' = pauseCalls + 1
    /\ cpc' = [cpc EXCEPT ![c] = "RebuildWaitRunning"]
    /\ UNCHANGED <<extMu, started, tstate, taskStarts, aioGoroutines,
                   tickerLaunches, timePaused, pausesReturned, unpauseCalls,
                   startOk, startErr>>
    /\ KernFrame

\* A RebuildTraceContexts whose Pause does not wait for the task goroutines.
Rebuild_WaitRunning_NoWait(c) ==
    /\ cpc[c] = "RebuildWaitRunning"
    /\ cpc' = [cpc EXCEPT ![c] = "RebuildWaitAIO"]
    /\ UNCHANGED <<extMu, started, stopCount, tstate, taskStarts,
                   aioGoroutines, tickerLaunches, timePaused, pausesReturned,
                   pauseCalls, unpauseCalls, startOk, startErr>>
    /\ KernFrame

\* k.Pause(): k.tasks.runningGoroutines.Wait() returns.
Rebuild_WaitRunning(c) ==
    /\ cpc[c] = "RebuildWaitRunning"
    /\ runningGoroutines = 0
    /\ cpc' = [cpc EXCEPT ![c] = "RebuildWaitAIO"]
    /\ UNCHANGED <<extMu, started, stopCount, tstate, taskStarts,
                   aioGoroutines, tickerLaunches, timePaused, pausesReturned,
                   pauseCalls, unpauseCalls, startOk, startErr>>
    /\ KernFrame

\* k.Pause(): k.tasks.aioGoroutines.Wait() returns, and Pause returns.
Rebuild_WaitAIO(c) ==
    /\ cpc[c] = "RebuildWaitAIO"
    /\ aioGoroutines = 0
    /\ cpc' = [cpc EXCEPT ![c] = "RebuildLock"]
    /\ UNCHANGED <<extMu, started, stopCount, tstate, taskStarts,
                   aioGoroutines, tickerLaunches, timePaused, pausesReturned,
                   pauseCalls, unpauseCalls, startOk, startErr>>
    /\ KernFrame

\* k.extMu.Lock(); k.tasks.mu.RLock()
Rebuild_Lock(c) ==
    /\ cpc[c] = "RebuildLock"
    /\ extMu = Free
    /\ extMu' = c
    /\ cpc' = [cpc EXCEPT ![c] = "RebuildBody"]
    /\ UNCHANGED <<started, stopCount, tstate, taskStarts, aioGoroutines,
                   tickerLaunches, timePaused, pausesReturned, pauseCalls,
                   unpauseCalls, startOk, startErr>>
    /\ KernFrame

\* for t, tid := range k.tasks.Root.tids { t.rebuildTraceContext(tid) };
\* deferred: k.tasks.mu.RUnlock(); k.extMu.Unlock(). The call is now at the
\* k.extMu.Lock() of the deferred Unpause.
Rebuild_Body(c) ==
    /\ cpc[c] = "RebuildBody"
    /\ extMu = c
    /\ extMu' = Free
    /\ cpc' = [cpc EXCEPT ![c] = "RebuildUnpause"]
    /\ UNCHANGED <<started, stopCount, tstate, taskStarts, aioGoroutines,
                   tickerLaunches, timePaused, pausesReturned, pauseCalls,
                   unpauseCalls, startOk, startErr>>
    /\ KernFrame

\* deferred k.Unpause(): k.extMu.Lock(); k.tasks.EndExternalStop();
\* k.extMu.Unlock(); RebuildTraceContexts returns.
Rebuild_Unpause(c) ==
    /\ cpc[c] = "RebuildUnpause"
    /\ extMu = Free
    /\ EndExternalStop
    /\ unpauseCalls' = unpauseCalls + 1
    /\ cpc' = [cpc EXCEPT ![c] = "idle"]
    /\ UNCHANGED <<extMu, started, taskStarts, aioGoroutines,
                   tickerLaunches, timePaused, pausesReturned, pauseCalls,
                   startOk, startErr>>
    /\ KernFrame

RebuildTraceContexts(c) ==
    \/ Rebuild_Pause(c)
    \/ Rebuild_WaitRunning(c)
    \/ Rebuild_WaitAIO(c)
    \/ Rebuild_Lock(c)
    \/ Rebuild_Body(c)
    \/ Rebuild_Unpause(c)

\* RebuildTraceContexts called while other callers pause and unpause the
\* kernel and call Start, and tasks run, stop and exit.
RebuildNext ==
    \/ \E c \in Callers : RebuildTraceContexts(c)
    \/ \E c \in Callers : Start_Lock(c)
    \/ \E c \in Callers : Start_Body(c)
    \/ \E c \in Callers : Pause_Begin(c)
    \/ \E c \in Callers : Pause_WaitRunning(c)
    \/ \E c \in Callers : Pause_WaitAIO(c)
    \/ \E c \in Callers : Unpause(c)
    \/ \E t \in Tasks : TaskStop(t)
    \/ \E t \in Tasks : TaskExit(t)
    \/ \E t \in Tasks : AIOStart(t)
    \/ AIODone

KernNext ==
    \/ \E c \in Callers, t \in Tasks, args \in LifecycleArgs :
          CreateProcess(c, t, args)
    \/ \E t \in Tasks : StartProcess(t)
    \/ \E c \in Callers : Start_Lock(c)
    \/ \E c \in Callers : Start_Body(c)
    \/ \E c \in Callers : Pause_Begin(c)
    \/ \E c \in Callers : Pause_WaitRunning(c)
    \/ \E c \in Callers : Pause_WaitAIO(c)
    \/ \E c \in Callers : Unpause(c)
    \/ \E t \in Tasks : TaskStop(t)
    \/ \E t \in Tasks : TaskExit(t)
    \/ \E t \in Tasks : AIOStart(t)
    \/ AIODone

\* A kernel after construction, with no ticker and no task running yet.
RunIdle ==
    /\ runningTasks = 0
    /\ runningTasksMu = Free
    /\ cpuClockTickerRunning = FALSE   \* the ticker never started
    /\ cpuClock = 0
    /\ tickPending = FALSE
    /\ ticksFired = 0
    /\ gpc = [g \in Goroutines |-> "blocked"]
    /\ tasksLoaded = [g \in Goroutines |-> 0]
    /\ tickTimer = [armed |-> ClockTick, missedNS |-> 0, taken |-> 0]


(***************************************************************************)
(* SaveTo (kernel.go:613-707), saveMemoryFiles (714-733) and savePrivateMFs *)
(* (587-608).                                                              *)
(*                                                                         *)
(* Positions of the SaveTo call (save.pc):                                 *)
(*   "idle", "pauseTime", "startEvict", "waitEvict", "invalidate",         *)
(*   "prepare", "mark", "spawn", "cpuid", "net", "kernel", "mf", "join",   *)
(*   then the deferred calls in the order they run: "deferNet",            *)
(*   "deferWait", "deferResume", "unlock".                                 *)
(* Positions of saveMemoryFiles (save.mfPc), run by the goroutine SaveTo   *)
(* starts or by SaveTo itself (save.mfBy):                                 *)
(*   "none", "main", "privmeta", "privfile", "done".                       *)
(***************************************************************************)
MainFaults == {"none", "invalidate", "prepare", "cpuid", "kernel"}
MFFaults == {"none", "mf", "privmeta"}

\* The per-call state of SaveTo before the call.
SaveFresh ==
    [pc |-> "idle", mfPc |-> "none", mfBy |-> "none",
     out |-> [w |-> <<>>, pagesMetadata |-> <<>>, pagesFile |-> <<>>],
     done |-> {}, evicting |-> FALSE, netPaused |-> FALSE,
     parallelMfSave |-> FALSE, mfsToSave |-> {}, meta |-> <<>>,
     nextFile |-> 1, mfSaveErr |-> "nil", result |-> "none"]

\* No SaveTo call is made: w only, no network stack, no private memory
\* file, no failure.
SaveNone ==
    /\ saveEnv = [pagesMetadata |-> FALSE, pagesFile |-> FALSE,
                  netStack |-> FALSE, mfs |-> {}]
    /\ faults = [main |-> "none", mf |-> "none", file |-> 0]
    /\ save = SaveFresh

\* Any arguments and environment of SaveTo: pagesMetadata and pagesFile nil
\* or not, a network stack present or not, any set of private memory files,
\* and at most one failing call on SaveTo's own path and one in
\* saveMemoryFiles.
SaveAny ==
    /\ saveEnv \in [pagesMetadata : BOOLEAN, pagesFile : BOOLEAN,
                    netStack : BOOLEAN, mfs : SUBSET Owners]
    /\ faults \in [main : MainFaults, mf : MFFaults, file : 0..NumOwners]
    /\ faults.file \in saveEnv.mfs \cup {0}
    /\ save = SaveFresh

\* A started kernel on which one Pause call has returned: every task is
\* stopped.
KernPaused ==
    /\ extMu = Free
    /\ started = TRUE
    /\ stopCount = 1
    /\ tstate = [t \in Tasks |-> "stopped"]
    /\ taskStarts = [t \in Tasks |-> 1]
    /\ aioGoroutines = 0
    /\ tickerLaunches = 1
    /\ timePaused = FALSE
    /\ cpc = [c \in Callers |-> "idle"]
    /\ pausesReturned = 1
    /\ pauseCalls = 1
    /\ unpauseCalls = 0
    /\ startOk = 1
    /\ startErr = 0

\* One record written to a stream: what it is, the owner of a private memory
\* file (0 otherwise), the owner list of a metadata record, and who wrote it.
Entry(kind, owner, list, by) ==
    [kind |-> kind, owner |-> owner, list |-> list, by |-> by]

\* The streams o with record e appended to stream st.
Put(o, st, e) == [o EXCEPT ![st] = Append(@, e)]

\* What SaveTo leaves alone in the kernel besides extMu, cpc and timePaused.
SaveKeepsKernel ==
    UNCHANGED <<started, stopCount, tstate, taskStarts, aioGoroutines,
                tickerLaunches, pausesReturned, pauseCalls, unpauseCalls,
                startOk, startErr>>

\* A step of SaveTo that changes only its own state.
SaveLocal ==
    /\ SaveKeepsKernel
    /\ UNCHANGED <<extMu, cpc, timePaused, saveEnv, faults>>
    /\ SaveFrame

\* SaveTo returns err: the deferred calls run.
SaveFail(err) ==
    save' = [save EXCEPT !.result = err, !.pc = "deferNet"]

\* A SaveTo that does not take extMu.
SaveTo_Lock_NoLock(c) ==
    /\ cpc[c] = "idle"
    /\ save.pc = "idle"
    /\ pausesReturned > 0
    /\ cpc' = [cpc EXCEPT ![c] = "SaveTo"]
    /\ save' = [SaveFresh EXCEPT !.pc = "pauseTime"]
    /\ SaveKeepsKernel
    /\ UNCHANGED <<extMu, timePaused, saveEnv, faults>>
    /\ SaveFrame

\* SaveTo, called on a paused kernel: k.extMu.Lock(); defer k.extMu.Unlock()
SaveTo_Lock(c) ==
    /\ cpc[c] = "idle"
    /\ extMu = Free
    /\ pausesReturned > 0
    /\ extMu' = c
    /\ cpc' = [cpc EXCEPT ![c] = "SaveTo"]
    /\ save' = [SaveFresh EXCEPT !.pc = "pauseTime"]
    /\ SaveKeepsKernel
    /\ UNCHANGED <<timePaused, saveEnv, faults>>
    /\ SaveFrame

\* k.pauseTimeLocked(ctx); defer k.resumeTimeLocked(ctx). pauseTimeLocked
\* (kernel.go:1223-1261) first waits until the CPU clock ticker has stopped.
SaveTo_PauseTime ==
    /\ save.pc = "pauseTime"
    /\ ~cpuClockTickerRunning
    /\ timePaused' = TRUE
    /\ save' = [save EXCEPT !.pc = "startEvict"]
    /\ SaveKeepsKernel
    /\ UNCHANGED <<extMu, cpc, saveEnv, faults>>
    /\ SaveFrame

\* k.mf.StartEvictions()
SaveTo_StartEvictions ==
    /\ save.pc = "startEvict"
    /\ save' = [save EXCEPT !.evicting = TRUE, !.pc = "waitEvict",
                            !.done = @ \cup {"startEvict"}]
    /\ SaveLocal

\* The memory file finishes the evictions it was asked to start.
EvictionsFinish ==
    /\ save.evicting
    /\ save' = [save EXCEPT !.evicting = FALSE]
    /\ SaveLocal

\* A wait for evictions that returns while evictions are still running.
SaveTo_WaitForEvictions_NoWait ==
    /\ save.pc = "waitEvict"
    /\ save' = [save EXCEPT !.pc = "invalidate", !.done = @ \cup {"waitEvict"}]
    /\ SaveLocal

\* k.mf.WaitForEvictions() returns.
SaveTo_WaitForEvictions ==
    /\ save.pc = "waitEvict"
    /\ ~save.evicting
    /\ save' = [save EXCEPT !.pc = "invalidate", !.done = @ \cup {"waitEvict"}]
    /\ SaveLocal

\* if err := k.invalidateUnsavableMappings(ctx); err != nil { return ... }
SaveTo_Invalidate ==
    /\ save.pc = "invalidate"
    /\ IF faults.main = "invalidate"
          THEN SaveFail("err.invalidate")
          ELSE save' = [save EXCEPT !.pc = "prepare",
                                    !.done = @ \cup {"invalidate"}]
    /\ SaveLocal

\* A SaveTo that goes on after k.vfs.PrepareSave failed.
SaveTo_PrepareSave_GoOn ==
    /\ save.pc = "prepare"
    /\ save' = [save EXCEPT !.pc = "mark", !.mfsToSave = saveEnv.mfs,
                            !.done = @ \cup {"prepare"}]
    /\ SaveLocal

\* mfsToSave := make(map...); if err := k.vfs.PrepareSave(vfsCtx); err != nil
\* { return err }. PrepareSave fills mfsToSave with the private memory files.
SaveTo_PrepareSave ==
    /\ save.pc = "prepare"
    /\ IF faults.main = "prepare"
          THEN SaveFail("err.prepare")
          ELSE save' = [save EXCEPT !.pc = "mark", !.mfsToSave = saveEnv.mfs,
                                    !.done = @ \cup {"prepare"}]
    /\ SaveLocal

\* k.mf.MarkSavable(); for _, mf := range mfsToSave { mf.MarkSavable() }
SaveTo_MarkSavable ==
    /\ save.pc = "mark"
    /\ save' = [save EXCEPT !.pc = "spawn", !.done = @ \cup {"mark"}]
    /\ SaveLocal

\* parallelMfSave := pagesMetadata != nil && pagesFile != nil
parallelMfSave == saveEnv.pagesMetadata /\ saveEnv.pagesFile

\* if parallelMfSave { mfSaveWg.Add(1); go func() { ... saveMemoryFiles ... }();
\* defer mfSaveWg.Wait() }
SaveTo_Spawn ==
    /\ save.pc = "spawn"
    /\ IF parallelMfSave
          THEN save' = [save EXCEPT !.pc = "cpuid", !.parallelMfSave = TRUE,
                                    !.mfPc = "main", !.mfBy = "goroutine"]
          ELSE save' = [save EXCEPT !.pc = "cpuid"]
    /\ SaveLocal

\* if _, err := state.Save(ctx, w, &k.featureSet); err != nil { return err }
SaveTo_SaveCPUID ==
    /\ save.pc = "cpuid"
    /\ IF faults.main = "cpuid"
          THEN SaveFail("err.cpuid")
          ELSE save' = [save EXCEPT
                           !.pc = "net", !.done = @ \cup {"cpuid"},
                           !.out = Put(@, "w", Entry("cpuid", 0, <<>>, "SaveTo"))]
    /\ SaveLocal

\* if rootNS := k.rootNetworkNamespace; rootNS != nil && rootNS.Stack() != nil
\* { k.rootNetworkNamespace.Stack().Pause(); defer ...Stack().Resume() }
SaveTo_PauseNet ==
    /\ save.pc = "net"
    /\ save' = [save EXCEPT !.pc = "kernel", !.done = @ \cup {"net"},
                            !.netPaused = saveEnv.netStack]
    /\ SaveLocal

\* stats, err := state.Save(ctx, w, k); if err != nil { return err }
SaveTo_SaveKernel ==
    /\ save.pc = "kernel"
    /\ IF faults.main = "kernel"
          THEN SaveFail("err.kernel")
          ELSE save' = [save EXCEPT
                           !.pc = "mf", !.done = @ \cup {"kernel"},
                           !.out = Put(@, "w", Entry("kernel", 0, <<>>, "SaveTo"))]
    /\ SaveLocal

\* if parallelMfSave { mfSaveWg.Wait() } else { mfSaveErr = k.saveMemoryFiles(...) }
\* Without the goroutine SaveTo calls saveMemoryFiles itself.
SaveTo_MemoryFiles ==
    /\ save.pc = "mf"
    /\ IF save.parallelMfSave
          THEN save' = [save EXCEPT !.pc = "join"]
          ELSE save' = [save EXCEPT !.pc = "join", !.mfPc = "main",
                                    !.mfBy = "SaveTo"]
    /\ SaveLocal

\* saveMemoryFiles has returned (mfSaveWg.Wait() returns, or the call does):
\* if mfSaveErr != nil { return mfSaveErr }; return nil
SaveTo_Join ==
    /\ save.pc = "join"
    /\ save.mfPc = "done"
    /\ save' = [save EXCEPT !.pc = "deferNet",
                            !.result = IF save.mfSaveErr # "nil"
                                          THEN save.mfSaveErr ELSE "ok"]
    /\ SaveLocal

\* deferred: k.rootNetworkNamespace.Stack().Resume(), if the stack was paused
SaveTo_DeferNetResume ==
    /\ save.pc = "deferNet"
    /\ save' = [save EXCEPT !.pc = "deferWait", !.netPaused = FALSE]
    /\ SaveLocal

\* A deferred call that does not wait for the goroutine.
SaveTo_DeferWait_NoWait ==
    /\ save.pc = "deferWait"
    /\ save' = [save EXCEPT !.pc = "deferResume"]
    /\ SaveLocal

\* deferred: mfSaveWg.Wait(), if the goroutine was started
SaveTo_DeferWait ==
    /\ save.pc = "deferWait"
    /\ save.parallelMfSave => save.mfPc = "done"
    /\ save' = [save EXCEPT !.pc = "deferResume"]
    /\ SaveLocal

\* deferred: k.resumeTimeLocked(ctx)
SaveTo_DeferResumeTime ==
    /\ save.pc = "deferResume"
    /\ timePaused' = FALSE
    /\ save' = [save EXCEPT !.pc = "unlock"]
    /\ SaveKeepsKernel
    /\ UNCHANGED <<extMu, cpc, saveEnv, faults>>
    /\ SaveFrame

\* deferred: k.extMu.Unlock(); SaveTo returns save.result.
SaveTo_Unlock(c) ==
    /\ save.pc = "unlock"
    /\ cpc[c] = "SaveTo"
    /\ extMu' = IF extMu = c THEN Free ELSE extMu
    /\ cpc' = [cpc EXCEPT ![c] = "idle"]
    /\ save' = [save EXCEPT !.pc = "idle"]
    /\ SaveKeepsKernel
    /\ UNCHANGED <<timePaused, saveEnv, faults>>
    /\ SaveFrame

\* A metadata stream that is always w.
pmw_AlwaysW == "w"

\* saveMemoryFiles: pmw := w; if pagesMetadata != nil { pmw = pagesMetadata }
pmw == IF saveEnv.pagesMetadata THEN "pagesMetadata" ELSE "w"

\* saveMemoryFiles: pw := w; if pagesFile != nil { pw = pagesFile }
pw == IF saveEnv.pagesFile THEN "pagesFile" ELSE "w"

\* saveMemoryFiles: if err := k.mf.SaveTo(ctx, pmw, pw, mfOpts); err != nil
\* { return err }. The memory file writes its metadata to pmw and its pages
\* to pw.
MF_SaveMain ==
    /\ save.mfPc = "main"
    /\ IF faults.mf = "mf"
          THEN save' = [save EXCEPT !.mfPc = "done", !.mfSaveErr = "err.mf"]
          ELSE save' = [save EXCEPT
                  !.mfPc = "privmeta", !.done = @ \cup {"mf"},
                  !.out = Put(Put(@, pmw, Entry("mf.meta", 0, <<>>, save.mfBy)),
                              pw, Entry("mf.pages", 0, <<>>, save.mfBy))]
    /\ SaveLocal

\* savePrivateMFs: for fsID := range mfsToSave { meta.owners = append(...) };
\* if _, err := state.Save(ctx, w, &meta); err != nil { return err }.
\* The map is ranged over in an arbitrary order.
MF_PrivMeta ==
    /\ save.mfPc = "privmeta"
    /\ \E owners \in Perms(save.mfsToSave) :
         IF faults.mf = "privmeta"
            THEN save' = [save EXCEPT !.mfPc = "done", !.meta = owners,
                                      !.mfSaveErr = "err.privmeta"]
            ELSE save' = [save EXCEPT
                    !.mfPc = "privfile", !.meta = owners, !.nextFile = 1,
                    !.out = Put(@, pmw, Entry("priv.owners", 0, owners, save.mfBy))]
    /\ SaveLocal

\* A loop over the files that takes them in the opposite order of meta.owners.
FileOrder_Reversed(owners) ==
    [i \in 1..Len(owners) |-> owners[Len(owners) + 1 - i]]

\* savePrivateMFs: for _, fsID := range meta.owners
FileOrder(owners) == owners

\* savePrivateMFs: if err := mfsToSave[fsID].SaveTo(ctx, w, pw, mfOpts);
\* err != nil { return err }, for the next fsID; return nil after the last.
MF_PrivFile ==
    /\ save.mfPc = "privfile"
    /\ IF save.nextFile > Len(FileOrder(save.meta))
          THEN save' = [save EXCEPT !.mfPc = "done"]
          ELSE LET fsID == FileOrder(save.meta)[save.nextFile] IN
               IF faults.file = fsID
                  THEN save' = [save EXCEPT !.mfPc = "done",
                                            !.mfSaveErr = "err.privfile"]
                  ELSE save' = [save EXCEPT
                          !.nextFile = @ + 1,
                          !.out = Put(Put(@, pmw, Entry("priv.meta", fsID, <<>>, save.mfBy)),
                                      pw, Entry("priv.pages", fsID, <<>>, save.mfBy))]
    /\ SaveLocal

SaveTo(c) ==
    \/ SaveTo_Lock(c)
    \/ SaveTo_Unlock(c)

SaveNext ==
    \/ \E c \in Callers : SaveTo(c)
    \/ SaveTo_PauseTime
    \/ SaveTo_StartEvictions
    \/ EvictionsFinish
    \/ SaveTo_WaitForEvictions
    \/ SaveTo_Invalidate
    \/ SaveTo_PrepareSave
    \/ SaveTo_MarkSavable
    \/ SaveTo_Spawn
    \/ SaveTo_SaveCPUID
    \/ SaveTo_PauseNet
    \/ SaveTo_SaveKernel
    \/ SaveTo_MemoryFiles
    \/ SaveTo_Join
    \/ SaveTo_DeferNetResume
    \/ SaveTo_DeferWait
    \/ SaveTo_DeferResumeTime
    \/ MF_SaveMain
    \/ MF_PrivMeta
    \/ MF_PrivFile
    \/ TickerPark

(***************************************************************************)
(* The other methods that lock extMu for their whole body: Kill, the       *)
(* external signal senders, the socket table, the container names and the  *)
(* save status.                                                            *)
(***************************************************************************)
Socks == {"s1", "s2"}
CIDs == {"c1", "c2"}
Names == {"web"}
ProcessGroups == {"pg1", "pg2"}

\* tg.ProcessGroup() of the thread group led by task t.
ProcessGroupOf(t) == IF t = 1 THEN "pg1" ELSE "pg2"

\* tg.leader.ContainerID() of the thread group led by task t.
ContainerOf(t) == IF t = 1 THEN "c1" ELSE "c2"

\* No group signal call yet.
NoSignalCall == [op |-> "none", target |-> "none"]

\* The extMu-protected registries of a new Kernel of which at most limit
\* calls are followed. attempted, failed and sigRet describe the last group
\* signal call sigCall: the thread groups it tried to deliver to, in order,
\* those whose delivery failed, and the error returned (the thread group
\* whose delivery produced it, 0 for nil). recorded, issued and firstSave
\* are the history of the calls: the sockets recorded and not since deleted,
\* the record IDs handed out in order, and the outcome the first
\* SetSaveSuccess or SetSaveError(non-nil) call reported.
ExtFresh(limit) ==
    [sockets |-> {}, nextSocketRecord |-> 0,
     containerNames |-> [cid \in CIDs |-> "none"],
     saveStatus |-> "nil", killed |-> FALSE, pending |-> {},
     received |-> 0, calls |-> 0, limit |-> limit,
     sigCall |-> NoSignalCall, attempted |-> <<>>, failed |-> {}, sigRet |-> 0,
     recorded |-> {}, issued |-> <<>>, firstSave |-> "none"]

\* The extMu-protected registries of a new Kernel.
ExtInit == ext = ExtFresh(MaxExtCalls)

\* What these methods leave alone.
ExtFrame ==
    KeepRun /\ KeepKernel /\ KeepSave /\ KeepLoad /\ KeepProc /\ KeepIds /\ KeepInit
    /\ KeepRest

\* A caller outside any call makes one more of these calls and gets extMu.
ExtCall(c) ==
    /\ cpc[c] = "idle"
    /\ extMu = Free
    /\ ext.calls < ext.limit

\* Kill: k.tasks.Kill(ws) under extMu: every task is asked to exit.
Kill(c) ==
    /\ ExtCall(c)
    /\ ext' = [ext EXCEPT !.killed = TRUE, !.calls = @ + 1]
    /\ ExtFrame

\* SendExternalSignal: k.sendExternalSignal(info, context) under extMu.
SendExternalSignal(c) ==
    /\ ExtCall(c)
    /\ ext' = [ext EXCEPT !.received = @ + 1, !.calls = @ + 1]
    /\ ExtFrame

\* SendExternalSignalThreadGroup: tg.SendSignal(info) under extMu; the signal
\* becomes pending on a thread group that is in the task set.
SendExternalSignalThreadGroup(c, tg) ==
    /\ ExtCall(c)
    /\ ext' = [ext EXCEPT !.pending = @ \cup ({tg} \cap tids), !.calls = @ + 1]
    /\ ExtFrame

\* The loop of SendExternalSignalProcessGroup over the thread groups tgs:
\* thread groups of another process group are skipped; tg.SendSignal is
\* called on each of the others, it fails for those in failing, and the first
\* error is kept.
RECURSIVE ProcessGroupLoop_LastErr(_, _, _, _)
ProcessGroupLoop_LastErr(tgs, pg, failing, acc) ==
    IF tgs = <<>> THEN acc
    ELSE LET tg == Head(tgs) IN
         IF ProcessGroupOf(tg) # pg
            THEN ProcessGroupLoop_LastErr(Tail(tgs), pg, failing, acc)
            ELSE ProcessGroupLoop_LastErr(Tail(tgs), pg, failing,
                    [attempted |-> Append(acc.attempted, tg),
                     err |-> IF tg \in failing THEN tg ELSE acc.err])

RECURSIVE ProcessGroupLoop(_, _, _, _)
ProcessGroupLoop(tgs, pg, failing, acc) ==
    IF tgs = <<>> THEN acc
    ELSE LET tg == Head(tgs) IN
         IF ProcessGroupOf(tg) # pg
            THEN ProcessGroupLoop(Tail(tgs), pg, failing, acc)
            ELSE ProcessGroupLoop(Tail(tgs), pg, failing,
                    [attempted |-> Append(acc.attempted, tg),
                     err |-> IF tg \in failing /\ acc.err = 0
                                THEN tg ELSE acc.err])

\* The loop of SendContainerSignal over the thread groups tgs: the signal is
\* sent to the leader of each thread group in container cid, and the error of
\* each failing delivery overwrites lastErr.
RECURSIVE ContainerLoop_Abort(_, _, _, _)
ContainerLoop_Abort(tgs, cid, failing, acc) ==
    IF tgs = <<>> \/ acc.err # 0 THEN acc
    ELSE LET tg == Head(tgs) IN
         IF ContainerOf(tg) # cid
            THEN ContainerLoop_Abort(Tail(tgs), cid, failing, acc)
            ELSE ContainerLoop_Abort(Tail(tgs), cid, failing,
                    [attempted |-> Append(acc.attempted, tg),
                     err |-> IF tg \in failing THEN tg ELSE acc.err])

RECURSIVE ContainerLoop(_, _, _, _)
ContainerLoop(tgs, cid, failing, acc) ==
    IF tgs = <<>> THEN acc
    ELSE LET tg == Head(tgs) IN
         IF ContainerOf(tg) # cid
            THEN ContainerLoop(Tail(tgs), cid, failing, acc)
            ELSE ContainerLoop(Tail(tgs), cid, failing,
                    [attempted |-> Append(acc.attempted, tg),
                     err |-> IF tg \in failing THEN tg ELSE acc.err])

\* The loop variables before the first iteration.
NoDelivery == [attempted |-> <<>>, err |-> 0]

\* The elements of the sequence q.
Range(q) == {q[i] : i \in DOMAIN q}

\* SendExternalSignalProcessGroup: tg.SendSignal(info) for every thread group
\* of the task set whose process group is pg, in the order order of
\* Root.ThreadGroups(); delivery fails for the thread groups in failing.
SendExternalSignalProcessGroup(c, pg, order, failing) ==
    /\ ExtCall(c)
    /\ Range(order) = tids /\ Len(order) = Cardinality(tids)
    /\ failing \subseteq tids
    /\ LET r == ProcessGroupLoop(order, pg, failing, NoDelivery) IN
       ext' = [ext EXCEPT
                 !.pending = @ \cup (Range(r.attempted) \ failing),
                 !.sigCall = [op |-> "pg", target |-> pg],
                 !.attempted = r.attempted,
                 !.failed = Range(r.attempted) \cap failing,
                 !.sigRet = r.err,
                 !.calls = @ + 1]
    /\ ExtFrame

\* SendContainerSignal: the signal is sent to every thread group of the task
\* set whose leader's container ID is cid, in the iteration order order of
\* the map tgids; delivery fails for the thread groups in failing.
SendContainerSignal(c, cid, order, failing) ==
    /\ ExtCall(c)
    /\ Range(order) = tids /\ Len(order) = Cardinality(tids)
    /\ failing \subseteq tids
    /\ LET r == ContainerLoop(order, cid, failing, NoDelivery) IN
       ext' = [ext EXCEPT
                 !.pending = @ \cup (Range(r.attempted) \ failing),
                 !.sigCall = [op |-> "cid", target |-> cid],
                 !.attempted = r.attempted,
                 !.failed = Range(r.attempted) \cap failing,
                 !.sigRet = r.err,
                 !.calls = @ + 1]
    /\ ExtFrame

\* RecordSocket that hands out the lowest record ID not in the table.
RecordSocket_ReuseID(c, sock) ==
    /\ ExtCall(c)
    /\ IF \E r \in ext.sockets : r.sock = sock
          THEN /\ extMu' = c
               /\ cpc' = [cpc EXCEPT ![c] = "panicked"]
               /\ ext' = [ext EXCEPT !.calls = @ + 1]
          ELSE /\ LET id == CHOOSE i \in 0..Cardinality(ext.sockets) :
                               /\ \A r \in ext.sockets : r.id # i
                               /\ \A j \in 0..(i - 1) :
                                     \E r \in ext.sockets : r.id = j
                  IN ext' = [ext EXCEPT
                               !.sockets = @ \cup {[sock |-> sock, id |-> id]},
                               !.nextSocketRecord = @ + 1,
                               !.recorded = @ \cup {sock},
                               !.issued = Append(@, id),
                               !.calls = @ + 1]
               /\ UNCHANGED <<extMu, cpc>>
    /\ UNCHANGED <<started, stopCount, tstate, taskStarts, aioGoroutines,
                   tickerLaunches, timePaused, pausesReturned, pauseCalls,
                   unpauseCalls, startOk, startErr>>
    /\ KeepRun /\ KeepSave /\ KeepLoad /\ KeepProc /\ KeepIds /\ KeepInit
    /\ KeepRest

\* RecordSocket: a socket already in the table panics, with extMu held;
\* otherwise it is recorded under the next record ID.
RecordSocket(c, sock) ==
    /\ ExtCall(c)
    /\ IF \E r \in ext.sockets : r.sock = sock
          THEN /\ extMu' = c
               /\ cpc' = [cpc EXCEPT ![c] = "panicked"]
               /\ ext' = [ext EXCEPT !.calls = @ + 1]
          ELSE /\ ext' = [ext EXCEPT
                            !.sockets = @ \cup {[sock |-> sock,
                                                 id |-> ext.nextSocketRecord]},
                            !.nextSocketRecord = @ + 1,
                            !.recorded = @ \cup {sock},
                            !.issued = Append(@, ext.nextSocketRecord),
                            !.calls = @ + 1]
               /\ UNCHANGED <<extMu, cpc>>
    /\ UNCHANGED <<started, stopCount, tstate, taskStarts, aioGoroutines,
                   tickerLaunches, timePaused, pausesReturned, pauseCalls,
                   unpauseCalls, startOk, startErr>>
    /\ KeepRun /\ KeepSave /\ KeepLoad /\ KeepProc /\ KeepIds /\ KeepInit
    /\ KeepRest

\* DeleteSocket: delete(k.sockets, sock)
DeleteSocket(c, sock) ==
    /\ ExtCall(c)
    /\ ext' = [ext EXCEPT !.sockets = {r \in @ : r.sock # sock},
                          !.recorded = @ \ {sock},
                          !.calls = @ + 1]
    /\ ExtFrame

\* ListSockets: a snapshot of the records in the table.
ListSockets == ext.sockets

\* RegisterContainerName: k.containerNames[cid] = containerName
RegisterContainerName(c, cid, containerName) ==
    /\ ExtCall(c)
    /\ ext' = [ext EXCEPT !.containerNames[cid] = containerName,
                          !.calls = @ + 1]
    /\ ExtFrame

\* RestoreContainerMapping: the old mapping is dropped and every name of
\* containerIDs (name -> new container ID) is entered under its new ID.
RestoreContainerMapping(c, containerIDs) ==
    /\ ExtCall(c)
    /\ \E m \in [CIDs -> Names \cup {"none"}] :
         /\ \A cid \in CIDs :
              IF \E name \in DOMAIN containerIDs : containerIDs[name] = cid
                 THEN m[cid] \in DOMAIN containerIDs /\ containerIDs[m[cid]] = cid
                 ELSE m[cid] = "none"
         /\ ext' = [ext EXCEPT !.containerNames = m, !.calls = @ + 1]
    /\ ExtFrame

\* The errors SetSaveError is called with.
SaveErrors == {"err1", "err2"}

\* SetSaveSuccess: if k.saveStatus == nil, errSaved or errAutoSaved is set.
SetSaveSuccess(c, autosave) ==
    /\ ExtCall(c)
    /\ LET status == IF autosave THEN "errAutoSaved" ELSE "errSaved" IN
       ext' = [ext EXCEPT
                 !.saveStatus = IF @ = "nil" THEN status ELSE @,
                 !.firstSave = IF @ = "none" THEN status ELSE @,
                 !.calls = @ + 1]
    /\ ExtFrame

\* SetSaveError that overwrites a status already set.
SetSaveError_Overwrite(c, err) ==
    /\ ExtCall(c)
    /\ ext' = [ext EXCEPT
                 !.saveStatus = err,
                 !.firstSave = IF @ = "none" /\ err # "nil" THEN err ELSE @,
                 !.calls = @ + 1]
    /\ ExtFrame

\* SetSaveError: if k.saveStatus == nil { k.saveStatus = err }
SetSaveError(c, err) ==
    /\ ExtCall(c)
    /\ ext' = [ext EXCEPT
                 !.saveStatus = IF @ = "nil" THEN err ELSE @,
                 !.firstSave = IF @ = "none" /\ err # "nil" THEN err ELSE @,
                 !.calls = @ + 1]
    /\ ExtFrame

\* SaveStatus: (saved, autosaved, err) read from k.saveStatus.
SaveStatus ==
    CASE ext.saveStatus = "nil" -> <<FALSE, FALSE, "nil">>
      [] ext.saveStatus = "errSaved" -> <<TRUE, FALSE, "nil">>
      [] ext.saveStatus = "errAutoSaved" -> <<TRUE, TRUE, "nil">>
      [] OTHER -> <<FALSE, FALSE, ext.saveStatus>>

ExtNext ==
    \/ KernNext
    \/ SaveNext
    \/ \E c \in Callers : Kill(c)
    \/ \E c \in Callers : SendExternalSignal(c)
    \/ \E c \in Callers, tg \in Tasks : SendExternalSignalThreadGroup(c, tg)
    \/ \E order \in Perms(tids) :
          \E c \in Callers, pg \in ProcessGroups :
             SendExternalSignalProcessGroup(c, pg, order, {})
    \/ \E order \in Perms(tids) :
          \E c \in Callers, cid \in CIDs :
             SendContainerSignal(c, cid, order, {})
    \/ \E c \in Callers, sock \in Socks : RecordSocket(c, sock)
    \/ \E c \in Callers, sock \in Socks : DeleteSocket(c, sock)
    \/ \E c \in Callers, cid \in CIDs, name \in Names : RegisterContainerName(c, cid, name)
    \/ \E c \in Callers, d \in SUBSET Names :
          \E containerIDs \in [d -> CIDs] : RestoreContainerMapping(c, containerIDs)
    \/ \E c \in Callers, autosave \in BOOLEAN : SetSaveSuccess(c, autosave)
    \/ \E c \in Callers, err \in SaveErrors \cup {"nil"} : SetSaveError(c, err)

(***************************************************************************)
(* LoadFrom (kernel.go:761-857).                                           *)
(*                                                                         *)
(* load.k holds the fields of the Kernel that LoadFrom reads or writes,    *)
(* load.k0 their values when LoadFrom was called, load.in the arguments    *)
(* and the contents of the stream.                                         *)
(* Positions (load.pc): "idle", "entry", "cpuid", "check", "kernel",       *)
(* "resetNet", "mf", "clocks", "restoreNet", "vfs", "cores", "done".       *)
(***************************************************************************)
Features == {"sse", "avx"}

\* The features of the host CPU.
HostFeatures == {"sse"}

LoadFaults == {"none", "cpuid", "kernel", "mf", "vfs"}

\* FeatureSet.CheckHostCompatible: no error iff the host has every feature of
\* the set.
CheckHostCompatible(fs) == fs \subseteq HostFeatures

\* The fields of a Kernel on which LoadFrom has not been called.
KernelFields(fs, cores, uhc) ==
    [featureSet |-> fs, applicationCores |-> cores, useHostCores |-> uhc,
     syncReady |-> FALSE, graph |-> "no", netStack |-> "none",
     mfLoaded |-> FALSE, clocksSet |-> FALSE, netRestored |-> FALSE,
     vfsRestored |-> FALSE]

\* What the checkpoint holds: the CPU feature set written first, and in the
\* kernel graph the same feature set, the core count, useHostCores and the
\* root network namespace with or without a stack.
Streams ==
    [featureSet : SUBSET Features, applicationCores : 1..MaxCores,
     useHostCores : BOOLEAN, netStack : BOOLEAN]

\* The arguments of LoadFrom that decide its path, and the call that fails.
LoadInputs ==
    [stream : Streams, asyncMFLoader : BOOLEAN, timeReady : BOOLEAN,
     net : BOOLEAN, saveRestoreNet : BOOLEAN, fault : LoadFaults]

\* No LoadFrom call is made.
LoadNone ==
    load = [pc |-> "idle", k |-> KernelFields({}, 1, FALSE),
            k0 |-> KernelFields({}, 1, FALSE),
            in |-> [stream |-> [featureSet |-> {}, applicationCores |-> 1,
                                useHostCores |-> FALSE, netStack |-> FALSE],
                    asyncMFLoader |-> FALSE, timeReady |-> FALSE,
                    net |-> FALSE, saveRestoreNet |-> FALSE, fault |-> "none"],
            initAppCores |-> 0, result |-> "none", timeReadyClosed |-> FALSE]

\* LoadFrom is called on a new Kernel, with any core count and useHostCores,
\* on any stream and with any arguments.
LoadAny ==
    \E fs \in {{}, HostFeatures}, cores \in 1..MaxCores, uhc \in BOOLEAN,
       in \in LoadInputs :
         load = [pc |-> "entry", k |-> KernelFields(fs, cores, uhc),
                 k0 |-> KernelFields(fs, cores, uhc), in |-> in,
                 initAppCores |-> 0, result |-> "none",
                 timeReadyClosed |-> FALSE]

\* What LoadFrom leaves alone.
LoadFrame ==
    KeepRun /\ KeepKernel /\ KeepSave /\ KeepExt /\ KeepProc /\ KeepIds /\ KeepInit
    /\ KeepRest

\* LoadFrom returns err.
LoadReturn(err) == [load EXCEPT !.result = err, !.pc = "done"]

\* k.runningTasksCond.L = ...; k.cpuClockTickerWakeCh = ...;
\* k.cpuClockTickerStopCond.L = ...; initAppCores := k.applicationCores
LoadFrom_Entry ==
    /\ load.pc = "entry"
    /\ load' = [load EXCEPT !.k.syncReady = TRUE,
                            !.initAppCores = load.k.applicationCores,
                            !.pc = "cpuid"]
    /\ LoadFrame

\* if _, err := state.Load(ctx, r, &k.featureSet); err != nil { return err }
\* A failing load may or may not have written k.featureSet.
LoadFrom_LoadCPUID ==
    /\ load.pc = "cpuid"
    /\ IF load.in.fault = "cpuid"
          THEN \E fs \in {load.k.featureSet, load.in.stream.featureSet} :
                 load' = [LoadReturn("err.cpuid") EXCEPT !.k.featureSet = fs]
          ELSE load' = [load EXCEPT !.k.featureSet = load.in.stream.featureSet,
                                    !.pc = "check"]
    /\ LoadFrame

\* A check that accepts every feature set.
LoadFrom_CheckHostCompatible_Skip ==
    /\ load.pc = "check"
    /\ load' = [load EXCEPT !.pc = "kernel"]
    /\ LoadFrame

\* if err := k.featureSet.CheckHostCompatible(); err != nil { return err }
LoadFrom_CheckHostCompatible ==
    /\ load.pc = "check"
    /\ IF CheckHostCompatible(load.k.featureSet)
          THEN load' = [load EXCEPT !.pc = "kernel"]
          ELSE load' = LoadReturn("err.incompatible")
    /\ LoadFrame

\* stats, err := state.Load(ctx, r, k); if err != nil { return err }
\* On success every saved field of k has the value of the checkpoint; a
\* failing load leaves the graph partly loaded.
LoadFrom_LoadKernel ==
    /\ load.pc = "kernel"
    /\ IF load.in.fault = "kernel"
          THEN load' = [LoadReturn("err.kernel") EXCEPT !.k.graph = "partial"]
          ELSE load' = [load EXCEPT
                  !.k.graph = "yes",
                  !.k.featureSet = load.in.stream.featureSet,
                  !.k.applicationCores = load.in.stream.applicationCores,
                  !.k.useHostCores = load.in.stream.useHostCores,
                  !.k.netStack = IF load.in.stream.netStack THEN "saved" ELSE "none",
                  !.pc = "resetNet"]
    /\ LoadFrame

\* if !saveRestoreNet { k.rootNetworkNamespace.ResetStack();
\* k.rootNetworkNamespace.RestoreRootStack(net) }
LoadFrom_ResetNet ==
    /\ load.pc = "resetNet"
    /\ IF ~load.in.saveRestoreNet
          THEN load' = [load EXCEPT
                  !.k.netStack = IF load.in.net THEN "net" ELSE "none",
                  !.pc = "mf"]
          ELSE load' = [load EXCEPT !.pc = "mf"]
    /\ LoadFrame

\* A LoadFrom that closes timeReady also when the memory files fail to load.
LoadFrom_MemoryFiles_Close ==
    /\ load.pc = "mf"
    /\ IF load.in.fault = "mf"
          THEN load' = [LoadReturn(IF load.in.asyncMFLoader
                                      THEN "err.mfStart" ELSE "err.mfLoad")
                           EXCEPT !.timeReadyClosed = load.in.timeReady]
          ELSE load' = [load EXCEPT !.k.mfLoaded = ~load.in.asyncMFLoader,
                                    !.pc = "clocks"]
    /\ LoadFrame

\* if asyncMFLoader == nil { k.loadMemoryFiles(ctx, r) } else
\* { asyncMFLoader.WaitMainMFStart() }; an error of either is returned.
LoadFrom_MemoryFiles ==
    /\ load.pc = "mf"
    /\ IF load.in.fault = "mf"
          THEN load' = LoadReturn(IF load.in.asyncMFLoader
                                     THEN "err.mfStart" ELSE "err.mfLoad")
          ELSE load' = [load EXCEPT !.k.mfLoaded = ~load.in.asyncMFLoader,
                                    !.pc = "clocks"]
    /\ LoadFrame

\* k.Timekeeper().SetClocks(clocks, k.vdsoParams);
\* if timeReady != nil { close(timeReady) }
LoadFrom_SetClocks ==
    /\ load.pc = "clocks"
    /\ load' = [load EXCEPT !.k.clocksSet = TRUE,
                            !.timeReadyClosed = load.in.timeReady,
                            !.pc = "restoreNet"]
    /\ LoadFrame

\* if saveRestoreNet { s := ...Stack(); if s == nil { panic(...) };
\* if net != nil { s.ReplaceConfig(net) }; s.Restore() }
\* else if net != nil { net.Restore() }
LoadFrom_RestoreNet ==
    /\ load.pc = "restoreNet"
    /\ IF load.in.saveRestoreNet
          THEN IF load.k.netStack = "none"
                  THEN load' = LoadReturn("panic")
                  ELSE load' = [load EXCEPT !.k.netRestored = TRUE, !.pc = "vfs"]
          ELSE load' = [load EXCEPT !.k.netRestored = load.in.net, !.pc = "vfs"]
    /\ LoadFrame

\* if err := k.vfs.CompleteRestore(ctx, vfsOpts); err != nil { return ... }
LoadFrom_CompleteRestore ==
    /\ load.pc = "vfs"
    /\ IF load.in.fault = "vfs"
          THEN load' = LoadReturn("err.vfs")
          ELSE load' = [load EXCEPT !.k.vfsRestored = TRUE, !.pc = "cores"]
    /\ LoadFrame

\* A check that rejects a decrease of the core count.
coresRejected_Decrease(useHostCores, initAppCores, applicationCores) ==
    useHostCores /\ initAppCores < applicationCores

\* k.useHostCores && initAppCores > k.applicationCores
coresRejected(useHostCores, initAppCores, applicationCores) ==
    useHostCores /\ initAppCores > applicationCores

\* if k.useHostCores && initAppCores > k.applicationCores { return
\* fmt.Errorf("UseHostCores enabled: can't increase ApplicationCores ...") };
\* return nil
LoadFrom_CheckCores ==
    /\ load.pc = "cores"
    /\ IF coresRejected(load.k.useHostCores, load.initAppCores,
                        load.k.applicationCores)
          THEN load' = LoadReturn("err.cores")
          ELSE load' = LoadReturn("nil")
    /\ LoadFrame

LoadNext ==
    \/ LoadFrom_Entry
    \/ LoadFrom_LoadCPUID
    \/ LoadFrom_CheckHostCompatible
    \/ LoadFrom_LoadKernel
    \/ LoadFrom_ResetNet
    \/ LoadFrom_MemoryFiles
    \/ LoadFrom_SetClocks
    \/ LoadFrom_RestoreNet
    \/ LoadFrom_CompleteRestore
    \/ LoadFrom_CheckCores

(***************************************************************************)
(* Init (kernel.go:460-580): four checks of the arguments, then the        *)
(* assignments of the Kernel fields, interleaved with calls that can fail. *)
(***************************************************************************)
\* The arguments of Init and what its environment does: the highest CPU
\* number of the host, and which of the calls Init makes fails, if any.
InitKernelArgs ==
    [FeatureSet : {"fs1", "fs2"},
     Timekeeper : {"nil", "noclocks", "ok"},
     RootUserNamespace : {"nil", "userns"},
     RootNetworkNamespace : {"nil", "netns"},
     ApplicationCores : 0..MaxCores,
     UseHostCores : BOOLEAN,
     MaxFDLimit : {"zero", "given"},
     maxCPU : 0..(MaxCores - 1),
     fault : {"none", "maxcpu", "vfs", "mqfs", "pipefs", "nsfs", "tmpfs",
              "sockfs", "shmdev"}]

\* The fields of a Kernel on which Init has not been called.
ZeroKernel ==
    [featureSet |-> "zero", timekeeper |-> "nil", tasks |-> "nil",
     rootUserNamespace |-> "nil", rootNetworkNamespace |-> "nil",
     applicationCores |-> 0, useHostCores |-> FALSE,
     MaxFDLimit |-> "zero", containerNames |-> "nil", vfs |-> "zero",
     mounts |-> {}, sysVShmDevID |-> "zero", sockets |-> "nil",
     cgroupRegistry |-> "nil"]

\* No Init call was made.
InitNone == kinit = [k |-> ZeroKernel, ret |-> "none", calls |-> 0]

\* The errors of the four argument checks.
ConfigErrors == {"err.timekeeper", "err.clocks", "err.userns", "err.cores"}

\* The calls of Init that can fail, in source order.
InitSteps ==
    <<"maxcpu", "vfs", "mqfs", "pipefs", "nsfs", "tmpfs", "sockfs", "shmdev">>

\* What Init returns: the error of the first check or call that fails.
InitReturn(args) ==
    IF args.Timekeeper = "nil" THEN "err.timekeeper"
    ELSE IF args.Timekeeper = "noclocks" THEN "err.clocks"
    ELSE IF args.RootUserNamespace = "nil" THEN "err.userns"
    ELSE IF args.ApplicationCores = 0 THEN "err.cores"
    ELSE IF args.fault = "none" THEN "nil"
    ELSE IF args.fault = "maxcpu" /\ ~args.UseHostCores THEN "nil"
    ELSE args.fault

\* Init got past the call named step.
InitPassed(args, step) ==
    LET r == InitReturn(args)
        pos(x) == CHOOSE i \in DOMAIN InitSteps : InitSteps[i] = x
    IN  /\ r \notin ConfigErrors
        /\ r = "nil" \/ pos(r) > pos(step)

\* The Kernel fields after Init has run on k up to its return.
InitAssign(k, args) ==
    IF InitReturn(args) \in ConfigErrors THEN k
    ELSE [k EXCEPT
            !.featureSet = args.FeatureSet,
            !.timekeeper = args.Timekeeper,
            !.tasks = "new",
            !.rootUserNamespace = args.RootUserNamespace,
            !.rootNetworkNamespace =
                IF args.RootNetworkNamespace = "nil" THEN "created"
                ELSE args.RootNetworkNamespace,
            !.useHostCores = @ \/ args.UseHostCores,
            !.applicationCores =
                IF /\ args.UseHostCores
                   /\ InitPassed(args, "maxcpu")
                   /\ args.ApplicationCores < args.maxCPU + 1
                   THEN args.maxCPU + 1
                   ELSE args.ApplicationCores,
            !.MaxFDLimit =
                IF ~InitPassed(args, "maxcpu") THEN @
                ELSE IF args.MaxFDLimit = "zero" THEN "default" ELSE "given",
            !.containerNames =
                IF InitPassed(args, "maxcpu") THEN "empty" ELSE @,
            !.vfs = IF InitPassed(args, "vfs") THEN "initialized" ELSE @,
            !.mounts =
                (IF InitPassed(args, "pipefs") THEN {"pipe"} ELSE {})
                \cup (IF InitPassed(args, "nsfs") THEN {"nsfs"} ELSE {})
                \cup (IF InitPassed(args, "tmpfs") THEN {"shm"} ELSE {})
                \cup (IF InitPassed(args, "sockfs") THEN {"socket"} ELSE {})
                \cup @,
            !.sysVShmDevID =
                IF InitPassed(args, "shmdev") THEN "set" ELSE @,
            !.sockets = IF InitPassed(args, "shmdev") THEN "empty" ELSE @,
            !.cgroupRegistry = IF InitPassed(args, "shmdev") THEN "new" ELSE @]

\* What Init leaves alone.
InitFrame ==
    KeepRun /\ KeepKernel /\ KeepSave /\ KeepExt /\ KeepLoad /\ KeepProc /\ KeepIds
    /\ KeepRest

\* Init that assigns the feature set before it checks its arguments.
Init_AssignFirst(args) ==
    /\ kinit.calls < MaxInitCalls
    /\ kinit' = [k |-> [InitAssign(kinit.k, args) EXCEPT
                          !.featureSet = args.FeatureSet],
                 ret |-> InitReturn(args),
                 calls |-> kinit.calls + 1]
    /\ InitFrame

\* Init: the argument checks, then the assignments up to the first failing
\* call or to the end.
Init(args) ==
    /\ kinit.calls < MaxInitCalls
    /\ kinit' = [k |-> InitAssign(kinit.k, args),
                 ret |-> InitReturn(args),
                 calls |-> kinit.calls + 1]
    /\ InitFrame

\* Init called with any arguments.
InitCallNext == \E args \in InitKernelArgs : Init(args)

(***************************************************************************)
(* The identifier generators UniqueID (kernel.go:859-866) and              *)
(* GenerateInotifyCookie (kernel.go:1583-1590). Both counters are atomic   *)
(* unsigned integers; Add(1) wraps to 0 after the largest value.           *)
(***************************************************************************)
\* The number of values of a counter.
CounterMod == 2 ^ CounterBits

\* atomicbitops Add(1) on an unsigned counter of CounterBits bits.
Add1(n) == (n + 1) % CounterMod

\* A new Kernel: both counters are 0, nothing was returned, no call is in
\* progress. uidLast[g] is the last value UniqueID returned to g (0: none).
IdsInit ==
    ids = [uniqueID |-> 0,
           uidLast |-> [g \in Goroutines |-> 0],
           uidSeen |-> {},
           uidTwice |-> FALSE,
           panicked |-> FALSE,
           nextInotifyCookie |-> 0,
           cookiePc |-> [g \in Goroutines |-> "idle"],
           cookieSeen |-> {},
           cookieTwice |-> FALSE,
           cookieSkips |-> 0]

\* What the generators leave alone.
IdsFrame ==
    KeepRun /\ KeepKernel /\ KeepSave /\ KeepExt /\ KeepLoad /\ KeepProc /\ KeepInit
    /\ KeepRest

\* UniqueID without the wraparound check.
UniqueID_NoPanic(g) ==
    /\ ~ids.panicked
    /\ LET id == Add1(ids.uniqueID) IN
       ids' = [ids EXCEPT !.uniqueID = id,
                          !.uidLast[g] = id,
                          !.uidSeen = @ \cup {id},
                          !.uidTwice = @ \/ id \in ids.uidSeen]
    /\ IdsFrame

\* UniqueID: id := k.uniqueID.Add(1); a result of 0 panics, which ends the
\* program; any other result is returned.
UniqueID(g) ==
    /\ ~ids.panicked
    /\ LET id == Add1(ids.uniqueID) IN
       IF id = 0
          THEN ids' = [ids EXCEPT !.uniqueID = id, !.panicked = TRUE]
          ELSE ids' = [ids EXCEPT !.uniqueID = id,
                                  !.uidLast[g] = id,
                                  !.uidSeen = @ \cup {id},
                                  !.uidTwice = @ \/ id \in ids.uidSeen]
    /\ IdsFrame

\* GenerateInotifyCookie returns id to its caller.
CookieReturn(g, id) ==
    ids' = [ids EXCEPT !.nextInotifyCookie = id,
                       !.cookiePc[g] = "idle",
                       !.cookieSeen = @ \cup {id},
                       !.cookieTwice = @ \/ id \in ids.cookieSeen]

\* GenerateInotifyCookie, first Add: id := k.nextInotifyCookie.Add(1); a
\* result other than 0 is returned, on 0 the call goes on to a second Add.
Cookie_Add(g) ==
    /\ ids.cookiePc[g] = "idle"
    /\ LET id == Add1(ids.nextInotifyCookie) IN
       IF id = 0
          THEN ids' = [ids EXCEPT !.nextInotifyCookie = id,
                                  !.cookiePc[g] = "again",
                                  !.cookieSkips = 1]
          ELSE CookieReturn(g, id)
    /\ IdsFrame

\* GenerateInotifyCookie, second Add: id = k.nextInotifyCookie.Add(1), whose
\* result is returned unchecked.
Cookie_AddAgain(g) ==
    /\ ids.cookiePc[g] = "again"
    /\ CookieReturn(g, Add1(ids.nextInotifyCookie))
    /\ IdsFrame

(***************************************************************************)
(* UserCounters (kernel.go:92-115).                                        *)
(*                                                                         *)
(* rlimitNProc is an atomic uint64; it is modelled with CounterBits bits.  *)
(* A call of incRLimitNProc is two atomic operations when it fails: the    *)
(* Add(1) and the Add(^uint64(0)) that takes it back; other calls run in   *)
(* between. Each call is given the limit and the capabilities of its       *)
(* context.                                                                *)
(***************************************************************************)
\* The values of lim.Cur.
Limits == 0..MaxLimit

NoRLimitCall ==
    [lim |-> 0, admin |-> FALSE, resource |-> FALSE, nproc |-> 0, peak |-> 0]

\* held: the successful incRLimitNProc calls minus the decRLimitNProc calls.
\* call[c].peak: the largest value of held since the call of c began.
UserCountersFresh ==
    [rlimitNProc |-> 0,
     pc |-> [c \in Callers |-> "idle"],
     call |-> [c \in Callers |-> NoRLimitCall],
     ret |-> [c \in Callers |-> "none"],
     held |-> 0,
     userCountersMap |-> {}]

UserCountersNone == uc = UserCountersFresh

UserCountersFrame ==
    /\ KeepRun /\ KeepKernel /\ KeepSave /\ KeepExt /\ KeepLoad /\ KeepProc
    /\ KeepIds /\ KeepInit
    /\ UNCHANGED <<tset, cg, pt, lk>>

\* nproc > lim.Cur && !creds.HasCapability(CAP_SYS_ADMIN) &&
\* !creds.HasCapability(CAP_SYS_RESOURCE)
OverLimit(call) == call.nproc > call.lim /\ ~call.admin /\ ~call.resource

\* incRLimitNProc up to its decision: nproc := uc.rlimitNProc.Add(1), then
\* the comparison with the limit. A call within the limit, or of a
\* capability holder, returns nil here.
IncRLimit_Add(c, lim, admin, resource) ==
    /\ uc.pc[c] = "idle"
    /\ uc.rlimitNProc < MaxNProc
    /\ LET nproc == Add1(uc.rlimitNProc)
           call == [lim |-> lim, admin |-> admin, resource |-> resource,
                    nproc |-> nproc, peak |-> uc.held]
           held == IF OverLimit(call) THEN uc.held ELSE uc.held + 1
       IN  uc' = [uc EXCEPT
                    !.rlimitNProc = nproc,
                    !.call = [d \in Callers |->
                                IF d = c THEN call
                                ELSE IF uc.pc[d] = "undo" /\ held > @[d].peak
                                        THEN [@[d] EXCEPT !.peak = held]
                                ELSE @[d]],
                    !.pc[c] = IF OverLimit(call) THEN "undo" ELSE "idle",
                    !.ret[c] = IF OverLimit(call) THEN "none" ELSE "nil",
                    !.held = held]
    /\ UserCountersFrame

\* A failing call that returns EAGAIN without taking its increment back.
IncRLimit_Undo_Skip(c) ==
    /\ uc.pc[c] = "undo"
    /\ uc' = [uc EXCEPT !.pc[c] = "idle", !.ret[c] = "EAGAIN"]
    /\ UserCountersFrame

\* uc.rlimitNProc.Add(^uint64(0)); return linuxerr.EAGAIN
IncRLimit_Undo(c) ==
    /\ uc.pc[c] = "undo"
    /\ uc' = [uc EXCEPT
                !.rlimitNProc = (@ + CounterMod - 1) % CounterMod,
                !.pc[c] = "idle",
                !.ret[c] = "EAGAIN"]
    /\ UserCountersFrame

incRLimitNProc(c) ==
    \/ \E lim \in Limits, admin, resource \in BOOLEAN :
          IncRLimit_Add(c, lim, admin, resource)
    \/ IncRLimit_Undo(c)

\* decRLimitNProc: uc.rlimitNProc.Add(^uint64(0)). It is called for a
\* process that an earlier incRLimitNProc call counted.
decRLimitNProc(c) ==
    /\ uc.pc[c] = "idle"
    /\ uc.held > 0
    /\ uc' = [uc EXCEPT
                !.rlimitNProc = (@ + CounterMod - 1) % CounterMod,
                !.held = @ - 1]
    /\ UserCountersFrame

\* The keys of k.userCountersMap.
UIDs == 1..NumUIDs

\* GetUserCounters (kernel.go:2013-2024), under userCountersMapMu: the
\* counters of uid are returned, after an empty UserCounters has been
\* inserted in k.userCountersMap if the map had none. It does not take extMu.
GetUserCounters(uid) ==
    /\ uc' = [uc EXCEPT !.userCountersMap = @ \cup {uid}]
    /\ UserCountersFrame

NProcNext ==
    \/ \E c \in Callers : incRLimitNProc(c)
    \/ \E c \in Callers : decRLimitNProc(c)

(***************************************************************************)
(* WaitExited (kernel.go:1366-1375) and the live-task count.               *)
(*                                                                         *)
(* The code that creates and ends tasks is not part of the sources at      *)
(* hand. Following the description of the task set, both happen under its  *)
(* lock: a new task is refused when noNewTasksIfZeroLive is set and no     *)
(* task is live, and the exit that takes liveTasks to 0 broadcasts         *)
(* zeroLiveTasksCond.                                                      *)
(*                                                                         *)
(* Positions of a WaitExited call (tset.wpc): "idle", "loop" (holds the    *)
(* lock, at the loop condition), "wait" (in zeroLiveTasksCond.Wait()),     *)
(* "returned". created counts the tasks created, refused records that a   *)
(* creation was refused.                                                   *)
(***************************************************************************)
TaskSetFresh ==
    [mu |-> Free, liveTasks |-> 0, noNewTasksIfZeroLive |-> FALSE,
     wpc |-> [c \in Callers |-> "idle"], woken |-> {}, created |-> 0,
     refused |-> FALSE]

TaskSetNone == tset = TaskSetFresh

TaskSetFrame ==
    /\ KeepRun /\ KeepKernel /\ KeepSave /\ KeepExt /\ KeepLoad /\ KeepProc
    /\ KeepIds /\ KeepInit
    /\ UNCHANGED <<uc, cg, pt, lk>>

\* A WaitExited that does not set noNewTasksIfZeroLive.
WaitExited_Lock_NoFlag(c) ==
    /\ tset.wpc[c] = "idle"
    /\ tset.mu = Free
    /\ tset' = [tset EXCEPT !.mu = c, !.wpc[c] = "loop"]
    /\ TaskSetFrame

\* k.tasks.mu.Lock(); k.tasks.noNewTasksIfZeroLive = true
WaitExited_Lock(c) ==
    /\ tset.wpc[c] = "idle"
    /\ tset.mu = Free
    /\ tset' = [tset EXCEPT !.mu = c, !.noNewTasksIfZeroLive = TRUE,
                            !.wpc[c] = "loop"]
    /\ TaskSetFrame

\* for k.tasks.liveTasks != 0 { k.tasks.zeroLiveTasksCond.Wait() }: one
\* evaluation of the loop condition. Wait releases the lock; leaving the
\* loop returns, and the deferred Unlock releases it.
WaitExited_Loop(c) ==
    /\ tset.wpc[c] = "loop"
    /\ tset.mu = c
    /\ tset' = [tset EXCEPT
                  !.mu = Free,
                  !.wpc[c] = IF tset.liveTasks # 0 THEN "wait" ELSE "returned",
                  !.woken = @ \ {c}]
    /\ TaskSetFrame

\* zeroLiveTasksCond.Wait() returns after a broadcast, with the lock taken
\* again.
WaitExited_Woken(c) ==
    /\ tset.wpc[c] = "wait"
    /\ c \in tset.woken
    /\ tset.mu = Free
    /\ tset' = [tset EXCEPT !.mu = c, !.wpc[c] = "loop", !.woken = @ \ {c}]
    /\ TaskSetFrame

WaitExited(c) ==
    \/ WaitExited_Lock(c)
    \/ WaitExited_Loop(c)
    \/ WaitExited_Woken(c)

\* A task is created, under the task set's lock: refused when
\* noNewTasksIfZeroLive is set and no task is live, counted in liveTasks
\* otherwise.
NewTask ==
    /\ tset.mu = Free
    /\ tset.created < MaxNewTasks
    /\ IF tset.noNewTasksIfZeroLive /\ tset.liveTasks = 0
          THEN tset' = [tset EXCEPT !.refused = TRUE]
          ELSE tset' = [tset EXCEPT !.liveTasks = @ + 1, !.created = @ + 1]
    /\ TaskSetFrame

\* A task ends, under the task set's lock: liveTasks is decremented, and
\* zeroLiveTasksCond is broadcast when it reaches 0.
LiveTaskExit ==
    /\ tset.mu = Free
    /\ tset.liveTasks > 0
    /\ tset' = [tset EXCEPT
                  !.liveTasks = @ - 1,
                  !.woken = IF tset.liveTasks = 1
                               THEN {c \in Callers : tset.wpc[c] = "wait"}
                               ELSE @]
    /\ TaskSetFrame

WaitExitedNext ==
    \/ \E c \in Callers : WaitExited(c)
    \/ NewTask
    \/ LiveTaskExit

(***************************************************************************)
(* PopulateNewCgroupHierarchy (kernel.go:1926-1946) and                    *)
(* ReleaseCgroupHierarchy (1951-1981).                                     *)
(*                                                                         *)
(* Both walk the tasks under k.tasks.mu.RLock(); for each task, the exit   *)
(* state is examined first, and only a task in TaskExitNone is locked and  *)
(* moved. cg.cgroups gives, per task, the hierarchies in which it holds a  *)
(* cgroup (at most one cgroup per hierarchy). The code that advances a     *)
(* task's exit state is not part of the sources at hand; following the     *)
(* description of the task set it runs with the task set's lock held       *)
(* exclusively.                                                            *)
(*                                                                         *)
(* A walk (cg.walk[c]): op is "none", "populate", "release" or, after the  *)
(* read lock was released by ReleaseCgroupHierarchy, "decRef"; hid the     *)
(* hierarchy, todo the tasks still to visit in iteration order, cur the    *)
(* task whose exit state was found to be TaskExitNone (0: none),           *)
(* releasedCGs the cgroups removed and not yet dropped (a cgroup is named  *)
(* by its hierarchy), removed the tasks they were removed from, in order.  *)
(* cg.refs counts, per hierarchy, the references tasks hold on its cgroup: *)
(* a task takes one when it enters.                                        *)
(***************************************************************************)
Hierarchies == 1..NumHierarchies

ExitStates == <<"TaskExitNone", "TaskExitInitiated", "TaskExitDead">>

NoWalk ==
    [op |-> "none", hid |-> 0, todo |-> <<>>, cur |-> 0, releasedCGs |-> <<>>,
     removed |-> <<>>]

CgroupFresh ==
    [readers |-> {},
     exitState |-> [t \in Tasks |-> 1],
     cgroups |-> [t \in Tasks |-> {}],
     refs |-> [h \in Hierarchies |-> 0],
     walk |-> [c \in Callers |-> NoWalk]]

CgroupNone == cg = CgroupFresh

CgroupFrame ==
    /\ KeepRun /\ KeepKernel /\ KeepSave /\ KeepExt /\ KeepLoad /\ KeepProc
    /\ KeepIds /\ KeepInit
    /\ UNCHANGED <<uc, tset, pt, lk>>

\* t.exitStateLocked()
exitStateLocked(t) == ExitStates[cg.exitState[t]]

\* k.tasks.mu.RLock() at the start of either method; order is the order
\* in which forEachTaskLocked will visit the tasks.
Cgroup_RLock(c, op, hid, order) ==
    /\ cg.walk[c].op = "none"
    /\ Range(order) = Tasks /\ Len(order) = Cardinality(Tasks)
    /\ cg' = [cg EXCEPT
                !.readers = @ \cup {c},
                !.walk[c] = [op |-> op, hid |-> hid, todo |-> order,
                             cur |-> 0, releasedCGs |-> <<>>,
                             removed |-> <<>>]]
    /\ CgroupFrame

\* A walk that moves every task, whatever its exit state.
Cgroup_Check_NoSkip(c) ==
    /\ c \in cg.readers
    /\ cg.walk[c].cur = 0
    /\ cg.walk[c].todo # <<>>
    /\ cg' = [cg EXCEPT !.walk[c].cur = Head(cg.walk[c].todo)]
    /\ CgroupFrame

\* if t.exitStateLocked() != TaskExitNone { return }
Cgroup_Check(c) ==
    /\ c \in cg.readers
    /\ cg.walk[c].cur = 0
    /\ cg.walk[c].todo # <<>>
    /\ LET t == Head(cg.walk[c].todo)
       IN  IF exitStateLocked(t) # "TaskExitNone"
              THEN cg' = [cg EXCEPT !.walk[c].todo = Tail(@)]
              ELSE cg' = [cg EXCEPT !.walk[c].cur = t]
    /\ CgroupFrame

\* A release that drops the reference of the cgroup it removes at once,
\* with the task set's read lock held.
Cgroup_Move_DecRef(c) ==
    /\ cg.walk[c].cur # 0
    /\ LET t == cg.walk[c].cur
           hid == cg.walk[c].hid
           found == hid \in cg.cgroups[t]
       IN  IF cg.walk[c].op = "populate"
              THEN cg' = [cg EXCEPT
                            !.cgroups[t] = @ \cup {hid},
                            !.refs[hid] = IF found THEN @ ELSE @ + 1,
                            !.walk[c].cur = 0,
                            !.walk[c].todo = Tail(@)]
              ELSE cg' = [cg EXCEPT
                            !.cgroups[t] = @ \ {hid},
                            !.refs[hid] = IF found THEN @ - 1 ELSE @,
                            !.walk[c].removed =
                                IF found THEN Append(@, t) ELSE @,
                            !.walk[c].cur = 0,
                            !.walk[c].todo = Tail(@)]
    /\ CgroupFrame

\* t.mu.Lock(); t.enterCgroupIfNotYetLocked(root); t.mu.Unlock(): a task
\* not yet in the cgroup enters it and holds a reference on it.
\* Or, releasing: t.mu.Lock(); the first cgroup of t.cgroups whose
\* HierarchyID is hid, if any, is left, deleted from t.cgroups and appended
\* to releasedCGs, and the loop over t.cgroups is left; t.mu.Unlock()
Cgroup_Move(c) ==
    /\ cg.walk[c].cur # 0
    /\ LET t == cg.walk[c].cur
           hid == cg.walk[c].hid
           found == hid \in cg.cgroups[t]
       IN  IF cg.walk[c].op = "populate"
              THEN cg' = [cg EXCEPT
                            !.cgroups[t] = @ \cup {hid},
                            !.refs[hid] = IF found THEN @ ELSE @ + 1,
                            !.walk[c].cur = 0,
                            !.walk[c].todo = Tail(@)]
              ELSE cg' = [cg EXCEPT
                            !.cgroups[t] = @ \ {hid},
                            !.walk[c].releasedCGs =
                                IF found THEN Append(@, hid) ELSE @,
                            !.walk[c].removed =
                                IF found THEN Append(@, t) ELSE @,
                            !.walk[c].cur = 0,
                            !.walk[c].todo = Tail(@)]
    /\ CgroupFrame

\* k.tasks.mu.RUnlock() after the last task. PopulateNewCgroupHierarchy
\* returns; ReleaseCgroupHierarchy goes on to drop the references.
Cgroup_RUnlock(c) ==
    /\ c \in cg.readers
    /\ cg.walk[c].cur = 0
    /\ cg.walk[c].todo = <<>>
    /\ cg' = [cg EXCEPT
                !.readers = @ \ {c},
                !.walk[c] = IF @.op = "release"
                               THEN [@ EXCEPT !.op = "decRef"]
                               ELSE NoWalk]
    /\ CgroupFrame

\* for _, c := range releasedCGs { c.decRef() }: one iteration.
Release_DecRef(c) ==
    /\ cg.walk[c].op = "decRef"
    /\ cg.walk[c].releasedCGs # <<>>
    /\ cg' = [cg EXCEPT
                !.refs[Head(cg.walk[c].releasedCGs)] = @ - 1,
                !.walk[c].releasedCGs = Tail(@)]
    /\ CgroupFrame

\* ReleaseCgroupHierarchy returns after the last decRef.
Release_Return(c) ==
    /\ cg.walk[c].op = "decRef"
    /\ cg.walk[c].releasedCGs = <<>>
    /\ cg' = [cg EXCEPT !.walk[c] = NoWalk]
    /\ CgroupFrame

PopulateNewCgroupHierarchy(c) ==
    \/ \E hid \in Hierarchies, order \in Perms(Tasks) :
          Cgroup_RLock(c, "populate", hid, order)
    \/ cg.walk[c].op = "populate"
          /\ (Cgroup_Check(c) \/ Cgroup_Move(c) \/ Cgroup_RUnlock(c))

ReleaseCgroupHierarchy(c) ==
    \/ \E hid \in Hierarchies, order \in Perms(Tasks) :
          Cgroup_RLock(c, "release", hid, order)
    \/ cg.walk[c].op = "release"
          /\ (Cgroup_Check(c) \/ Cgroup_Move(c) \/ Cgroup_RUnlock(c))
    \/ Release_DecRef(c)
    \/ Release_Return(c)

\* A task's exit state advances, with the task set's lock held exclusively.
AdvanceExitState(t) ==
    /\ cg.readers = {}
    /\ cg.exitState[t] < Len(ExitStates)
    /\ cg' = [cg EXCEPT !.exitState[t] = @ + 1]
    /\ CgroupFrame

CgroupNext ==
    \/ \E c \in Callers : PopulateNewCgroupHierarchy(c)
    \/ \E c \in Callers : ReleaseCgroupHierarchy(c)
    \/ \E t \in Tasks : AdvanceExitState(t)

\* Caller c may begin to walk hierarchy hid with op: a hierarchy is
\* populated when it is new (kernel.go:1929-1932) and released when it is
\* torn down (1948-1950), never both at a time.
MayBegin(op, hid) ==
    \A d \in Callers :
        cg.walk[d].hid = hid =>
            IF op = "populate" THEN cg.walk[d].op = "populate"
            ELSE cg.walk[d].op \in {"release", "decRef"}

\* The cgroup methods, step by step, with exits in between.
HierarchyNext ==
    \/ \E c \in Callers, hid \in Hierarchies, order \in Perms(Tasks) :
          MayBegin("populate", hid) /\ Cgroup_RLock(c, "populate", hid, order)
    \/ \E c \in Callers, hid \in Hierarchies, order \in Perms(Tasks) :
          MayBegin("release", hid) /\ Cgroup_RLock(c, "release", hid, order)
    \/ \E c \in Callers : Cgroup_Check(c)
    \/ \E c \in Callers : Cgroup_Move(c)
    \/ \E c \in Callers : Cgroup_RUnlock(c)
    \/ \E c \in Callers : Release_DecRef(c)
    \/ \E c \in Callers : Release_Return(c)
    \/ \E t \in Tasks : AdvanceExitState(t)

(***************************************************************************)
(* Lock order (kernel.go:19-33).                                           *)
(*                                                                         *)
(* Each operation of kernel.go that takes more than one of the locks       *)
(* Kernel.extMu, TaskSet.mu, SignalHandlers.mu, Task.mu and                *)
(* Kernel.runningTasksMu is reduced to its locking steps, in program       *)
(* order. A lock is a pair <<name, index>>; the index tells the thread     *)
(* groups' SignalHandlers.mu and the tasks' Task.mu apart. A step is a     *)
(* pair <<kind, lock>> with kind "Lock", "RLock", "Unlock" or "RUnlock".   *)
(* Waits on condition variables and FSContext.mu, which is not among the   *)
(* documented locks, are left out.                                         *)
(***************************************************************************)
ExtMuL == <<"Kernel.extMu", 0>>
TaskSetMuL == <<"TaskSet.mu", 0>>
RunningTasksMuL == <<"Kernel.runningTasksMu", 0>>

\* The thread groups whose signal handlers are locked; thread group t is
\* led by task t.
LockedGroups == Tasks

\* The documented order: lock a is taken before lock b. extMu is outermost;
\* below it TaskSet.mu, SignalHandlers.mu, Task.mu nest in this order, and
\* runningTasksMu stands on a branch of its own.
Outer(a, b) ==
    \/ a[1] = "Kernel.extMu" /\ b[1] # "Kernel.extMu"
    \/ a[1] = "TaskSet.mu" /\ b[1] \in {"SignalHandlers.mu", "Task.mu"}
    \/ a[1] = "SignalHandlers.mu" /\ b[1] = "Task.mu"

\* The steps that visit each element x of order in turn: the lock
\* <<name, x>> is taken and released before the next one.
RECURSIVE OneAtATime(_, _)
OneAtATime(order, name) ==
    IF order = <<>> THEN <<>>
    ELSE <<<<"Lock", <<name, Head(order)>>>>,
           <<"Unlock", <<name, Head(order)>>>>>>
            \o OneAtATime(Tail(order), name)

\* Start (kernel.go:1185-1207), and SaveTo with pauseTimeLocked and
\* invalidateUnsavableMappings (617, 1227-1235, 738-739): extMu, under it
\* runningTasksMu, then, runningTasksMu released, TaskSet.mu for reading.
StartLocks ==
    <<<<"Lock", ExtMuL>>, <<"Lock", RunningTasksMuL>>,
      <<"Unlock", RunningTasksMuL>>, <<"RLock", TaskSetMuL>>,
      <<"RUnlock", TaskSetMuL>>, <<"Unlock", ExtMuL>>>>

\* A SendContainerSignal that takes TaskSet.mu before extMu.
SendContainerSignalLocks_TasksFirst(order) ==
    <<<<"RLock", TaskSetMuL>>, <<"Lock", ExtMuL>>>>
        \o OneAtATime(order, "SignalHandlers.mu")
        \o <<<<"Unlock", ExtMuL>>, <<"RUnlock", TaskSetMuL>>>>

\* SendContainerSignal (kernel.go:1461-1474): extMu, TaskSet.mu for
\* reading, then the SignalHandlers.mu of each thread group of the
\* container, one at a time; the deferred unlocks run in reverse order.
SendContainerSignalLocks(order) ==
    <<<<"Lock", ExtMuL>>, <<"RLock", TaskSetMuL>>>>
        \o OneAtATime(order, "SignalHandlers.mu")
        \o <<<<"RUnlock", TaskSetMuL>>, <<"Unlock", ExtMuL>>>>

\* RebuildTraceContexts after its Pause (kernel.go:1493-1496).
RebuildTraceContextsLocks ==
    <<<<"Lock", ExtMuL>>, <<"RLock", TaskSetMuL>>,
      <<"RUnlock", TaskSetMuL>>, <<"Unlock", ExtMuL>>>>

\* PopulateNewCgroupHierarchy, ReleaseCgroupHierarchy and
\* ReplaceFSContextRoots (kernel.go:1934-1945, 1954-1976, 1986-2006):
\* TaskSet.mu for reading, then the Task.mu of each task, one at a time.
TaskWalkLocks(order) ==
    <<<<"RLock", TaskSetMuL>>>>
        \o OneAtATime(order, "Task.mu")
        \o <<<<"RUnlock", TaskSetMuL>>>>

\* WaitExited (kernel.go:1369-1370): TaskSet.mu exclusively.
WaitExitedLocks == <<<<"Lock", TaskSetMuL>>, <<"Unlock", TaskSetMuL>>>>

\* incRunningTasks (kernel.go:1305-1349): runningTasksMu alone.
IncRunningTasksLocks ==
    <<<<"Lock", RunningTasksMuL>>, <<"Unlock", RunningTasksMuL>>>>

\* The sequences without repetition of elements of S, in any order.
Orders(S) == UNION {Perms(T) : T \in SUBSET S}

Operations ==
    {StartLocks, RebuildTraceContextsLocks, WaitExitedLocks,
     IncRunningTasksLocks}
    \cup {SendContainerSignalLocks(o) : o \in Orders(LockedGroups)}
    \cup {TaskWalkLocks(o) : o \in Perms(Tasks)}

NoOperation == [prog |-> <<>>, pc |-> 0, stack |-> <<>>]

\* held: the triples <<caller, lock, mode>>, mode "w" or "r".
LocksFresh == [held |-> {}, op |-> [c \in Callers |-> NoOperation]]

LocksNone == lk = LocksFresh

LocksFrame ==
    /\ KeepRun /\ KeepKernel /\ KeepSave /\ KeepExt /\ KeepLoad /\ KeepProc
    /\ KeepIds /\ KeepInit
    /\ UNCHANGED <<uc, tset, cg, pt>>

\* The step caller c is about to take, <<"none", ExtMuL>> if it has none.
NextStep(c) ==
    IF lk.op[c].pc = 0 THEN <<"none", ExtMuL>>
    ELSE lk.op[c].prog[lk.op[c].pc]

\* sync.Mutex and sync.RWMutex: Lock waits until nobody holds the lock;
\* RLock waits while a writer holds it or is waiting for it.
CanTake(c, step) ==
    CASE step[1] = "Lock" ->
            \A h \in lk.held : h[2] # step[2]
      [] step[1] = "RLock" ->
            /\ \A h \in lk.held : ~(h[2] = step[2] /\ h[3] = "w")
            /\ \A d \in Callers \ {c} : NextStep(d) # <<"Lock", step[2]>>
      [] OTHER -> TRUE

\* The locks of a stack without one lock.
Without(stack, lock) == SelectSeq(stack, LAMBDA l : l # lock)

\* A caller starts an operation.
BeginOperation(c, prog) ==
    /\ lk.op[c].pc = 0
    /\ lk' = [lk EXCEPT !.op[c] = [prog |-> prog, pc |-> 1, stack |-> <<>>]]
    /\ LocksFrame

\* A caller executes its next locking step; after the last one its
\* operation is over.
LockStep(c) ==
    /\ lk.op[c].pc # 0
    /\ CanTake(c, NextStep(c))
    /\ LET step == NextStep(c)
           mode == IF step[1] \in {"Lock", "Unlock"} THEN "w" ELSE "r"
           takes == step[1] \in {"Lock", "RLock"}
           held == IF takes THEN lk.held \cup {<<c, step[2], mode>>}
                            ELSE lk.held \ {<<c, step[2], mode>>}
           stack == IF takes THEN Append(lk.op[c].stack, step[2])
                             ELSE Without(lk.op[c].stack, step[2])
       IN  lk' = [lk EXCEPT
                    !.held = held,
                    !.op[c] = IF lk.op[c].pc = Len(lk.op[c].prog)
                                 THEN NoOperation
                                 ELSE [@ EXCEPT !.pc = @ + 1,
                                                !.stack = stack]]
    /\ LocksFrame

\* The keys of a context lookup told apart by the locks the lookup takes;
\* "other" stands for every key whose case takes none.
ContextKeys == {"vfs.CtxRoot", "vfs.CtxMountNamespace",
                "devutil.CtxDevGoferClient", "other"}

\* GlobalInit (kernel.go:1546-1550) and ContainerName (2095-2099):
\* k.extMu.Lock(); defer k.extMu.Unlock()
GlobalInitLocks == <<<<"Lock", ExtMuL>>, <<"Unlock", ExtMuL>>>>

\* createProcessContext.Value (kernel.go:956-1011): the mount-namespace key
\* calls ctx.kernel.GlobalInit() unless k.globalInit is nil, the dev gofer
\* key calls ctx.kernel.ContainerName; the root key asks the mount namespace
\* of the arguments and takes no lock of the kernel.
createProcessContextValueLocks(key, globalInitSet) ==
    IF key = "vfs.CtxMountNamespace" /\ globalInitSet THEN GlobalInitLocks
    ELSE IF key = "devutil.CtxDevGoferClient" THEN GlobalInitLocks
    ELSE <<>>

\* supervisorContext.Value (kernel.go:1745-1804): the root and the
\* mount-namespace keys call ctx.Kernel.GlobalInit() unless k.globalInit or
\* its leader is nil.
supervisorContextValueLocks(key, globalInitSet) ==
    IF key \in {"vfs.CtxRoot", "vfs.CtxMountNamespace"} /\ globalInitSet
       THEN GlobalInitLocks
       ELSE <<>>

\* CreateProcess (kernel.go:1036-1172) holds extMu from entry to return and
\* hands its createProcessContext to the calls it makes; one of them looks
\* up key.
CreateProcessLocks(key, globalInitSet) ==
    <<<<"Lock", ExtMuL>>>>
        \o createProcessContextValueLocks(key, globalInitSet)
        \o <<<<"Unlock", ExtMuL>>>>

\* Start (kernel.go:1185-1207) hands k.SupervisorContext() to
\* resumeTimeLocked (1201), after runningTasksMu was released and before
\* TaskSet.mu is taken; the timers resumed there look up key.
StartLookupLocks(key, globalInitSet) ==
    <<<<"Lock", ExtMuL>>, <<"Lock", RunningTasksMuL>>,
      <<"Unlock", RunningTasksMuL>>>>
        \o supervisorContextValueLocks(key, globalInitSet)
        \o <<<<"RLock", TaskSetMuL>>, <<"RUnlock", TaskSetMuL>>,
             <<"Unlock", ExtMuL>>>>

\* CreateProcess and Start with a lookup of any key, before and after the
\* global init was set, and GlobalInit called on its own.
ContextOperations ==
    {GlobalInitLocks}
    \cup {CreateProcessLocks(key, gi) : key \in ContextKeys, gi \in BOOLEAN}
    \cup {StartLookupLocks(key, gi) : key \in ContextKeys, gi \in BOOLEAN}

\* The operations of the lock order together with the context lookups.
ContextLocksNext ==
    \/ \E c \in Callers, prog \in Operations \cup ContextOperations :
          BeginOperation(c, prog)
    \/ \E c \in Callers : LockStep(c)

LocksNext ==
    \/ \E c \in Callers, prog \in Operations : BeginOperation(c, prog)
    \/ \E c \in Callers : LockStep(c)

(***************************************************************************)
(* The CPU clock ticker goroutine and pauseTimeLocked                      *)
(* (kernel.go:1218-1260).                                                  *)
(*                                                                         *)
(* The body of runCPUClockTicker is not part of the sources at hand; its   *)
(* steps follow the description of the ticker: it parks on                 *)
(* runningTasksCond when it sees a zero running count under                *)
(* runningTasksMu, and while running it waits for a tick or for a message  *)
(* on cpuClockTickerWakeCh.                                                *)
(*                                                                         *)
(* Positions of the ticker goroutine (pt.tpc):                             *)
(*   "none"    Start has not launched it                                   *)
(*   "top"     at the head of its loop                                     *)
(*   "lock"    saw a zero count, about to lock runningTasksMu              *)
(*   "recheck" holds runningTasksMu                                        *)
(*   "parked"  in runningTasksCond.Wait()                                  *)
(*   "woken"   Wait returned, holds runningTasksMu                         *)
(*   "select"  waiting for a tick or a wake message                        *)
(* Positions of the pauseTimeLocked call (pt.ppc):                         *)
(*   "idle", "lock", "loop" (holds runningTasksMu, at the loop condition), *)
(*   "wait" (in cpuClockTickerStopCond.Wait()), "timers" (past the loop),  *)
(*   "returned"                                                            *)
(***************************************************************************)
\* The holders of runningTasksMu besides the task goroutines.
TickerG == NumGoroutines + 1
PauserG == NumGoroutines + 2

PauseTimeFresh(tpc) ==
    [tpc |-> tpc, wakeCh |-> 0, ppc |-> "idle", woken |-> FALSE,
     waited |-> FALSE]

PauseTimeNone == pt = PauseTimeFresh("none")

\* What the steps of the ticker and of pauseTimeLocked leave alone.
PauseTimeFrame ==
    /\ UNCHANGED <<ticksFired, gpc, tasksLoaded>>
    /\ UNCHANGED <<uc, tset, cg, lk>>
    /\ KeepKernel /\ KeepSave /\ KeepExt /\ KeepLoad /\ KeepProc /\ KeepIds
    /\ KeepInit

\* The head of the ticker's loop: with nothing running it goes on to park.
Ticker_Top ==
    /\ pt.tpc = "top"
    /\ pt' = [pt EXCEPT !.tpc = IF runningTasks = 0 THEN "lock" ELSE "select"]
    /\ UNCHANGED <<runningTasks, runningTasksMu, cpuClockTickerRunning,
                   cpuClock, tickPending, tickTimer>>
    /\ PauseTimeFrame

\* k.runningTasksMu.Lock()
Ticker_Lock ==
    /\ pt.tpc = "lock"
    /\ runningTasksMu = Free
    /\ runningTasksMu' = TickerG
    /\ pt' = [pt EXCEPT !.tpc = "recheck"]
    /\ UNCHANGED <<runningTasks, cpuClockTickerRunning, cpuClock, tickPending,
                   tickTimer>>
    /\ PauseTimeFrame

\* Under runningTasksMu: if the count is still zero, cpuClockTickerRunning
\* becomes false, cpuClockTickerStopCond is broadcast and the ticker waits
\* on runningTasksCond, which releases the mutex; otherwise it unlocks.
Ticker_Recheck ==
    /\ pt.tpc = "recheck"
    /\ runningTasksMu = TickerG
    /\ IF runningTasks = 0
          THEN /\ cpuClockTickerRunning' = FALSE
               /\ tickTimer' = [tickTimer EXCEPT !.taken = 0]
               /\ pt' = [pt EXCEPT !.tpc = "parked",
                                   !.woken = (pt.ppc = "wait")]
          ELSE /\ pt' = [pt EXCEPT !.tpc = "select"]
               /\ UNCHANGED <<cpuClockTickerRunning, tickTimer>>
    /\ runningTasksMu' = Free
    /\ UNCHANGED <<runningTasks, cpuClock, tickPending>>
    /\ PauseTimeFrame

\* runningTasksCond.Wait() returns: incRunningTasks set
\* cpuClockTickerRunning and signaled the condition, and the mutex is free
\* to be taken again.
Ticker_Wake ==
    /\ pt.tpc = "parked"
    /\ cpuClockTickerRunning
    /\ runningTasksMu = Free
    /\ runningTasksMu' = TickerG
    /\ pt' = [pt EXCEPT !.tpc = "woken"]
    /\ UNCHANGED <<runningTasks, cpuClockTickerRunning, cpuClock, tickPending,
                   tickTimer>>
    /\ PauseTimeFrame

\* k.runningTasksMu.Unlock() after the wait.
Ticker_Unlock ==
    /\ pt.tpc = "woken"
    /\ runningTasksMu = TickerG
    /\ runningTasksMu' = Free
    /\ pt' = [pt EXCEPT !.tpc = "select"]
    /\ UNCHANGED <<runningTasks, cpuClockTickerRunning, cpuClock, tickPending,
                   tickTimer>>
    /\ PauseTimeFrame

\* The ticker receives a tick: it re-arms the timer with a whole ClockTick
\* and advances the CPU clock.
Ticker_Tick ==
    /\ pt.tpc = "select"
    /\ tickPending
    /\ tickPending' = FALSE
    /\ tickTimer' = [tickTimer EXCEPT !.armed = ClockTick, !.missedNS = 0]
    /\ cpuClock' = cpuClock + 1
    /\ pt' = [pt EXCEPT !.tpc = "top"]
    /\ UNCHANGED <<runningTasks, runningTasksMu, cpuClockTickerRunning>>
    /\ PauseTimeFrame

\* The ticker receives from cpuClockTickerWakeCh and returns to the head of
\* its loop.
Ticker_WakeCh ==
    /\ pt.tpc = "select"
    /\ pt.wakeCh = 1
    /\ pt' = [pt EXCEPT !.tpc = "top", !.wakeCh = 0]
    /\ UNCHANGED <<runningTasks, runningTasksMu, cpuClockTickerRunning,
                   cpuClock, tickPending, tickTimer>>
    /\ PauseTimeFrame

runCPUClockTicker ==
    \/ Ticker_Top
    \/ Ticker_Lock
    \/ Ticker_Recheck
    \/ Ticker_Wake
    \/ Ticker_Unlock
    \/ Ticker_Tick
    \/ Ticker_WakeCh

\* pauseTimeLocked is called. Its preconditions: every task goroutine is
\* stopped and extMu is held, so one call runs at a time.
PauseTime_Call ==
    /\ pt.ppc = "idle"
    /\ \A g \in Goroutines : gpc[g] = "blocked"
    /\ pt' = [pt EXCEPT !.ppc = "lock", !.waited = FALSE]
    /\ UNCHANGED <<runningTasks, runningTasksMu, cpuClockTickerRunning,
                   cpuClock, tickPending, tickTimer>>
    /\ PauseTimeFrame

\* k.runningTasksMu.Lock()
PauseTime_Lock ==
    /\ pt.ppc = "lock"
    /\ runningTasksMu = Free
    /\ runningTasksMu' = PauserG
    /\ pt' = [pt EXCEPT !.ppc = "loop"]
    /\ UNCHANGED <<runningTasks, cpuClockTickerRunning, cpuClock, tickPending,
                   tickTimer>>
    /\ PauseTimeFrame

\* A loop that sends to the wake channel with a blocking send.
PauseTime_Loop_Blocking ==
    /\ pt.ppc = "loop"
    /\ runningTasksMu = PauserG
    /\ IF cpuClockTickerRunning
          THEN /\ pt.wakeCh = 0
               /\ pt' = [pt EXCEPT !.wakeCh = 1, !.ppc = "wait",
                                   !.woken = FALSE, !.waited = TRUE]
               /\ runningTasksMu' = Free
          ELSE /\ pt' = [pt EXCEPT !.ppc = "timers"]
               /\ runningTasksMu' = Free
    /\ UNCHANGED <<runningTasks, cpuClockTickerRunning, cpuClock, tickPending,
                   tickTimer>>
    /\ PauseTimeFrame

\* for k.cpuClockTickerRunning { select { case k.cpuClockTickerWakeCh <-
\* struct{}{}: default: }; k.cpuClockTickerStopCond.Wait() };
\* k.runningTasksMu.Unlock(): one evaluation of the loop condition. The
\* send does not block: a full channel takes the default case. Wait
\* releases runningTasksMu.
PauseTime_Loop ==
    /\ pt.ppc = "loop"
    /\ runningTasksMu = PauserG
    /\ IF cpuClockTickerRunning
          THEN pt' = [pt EXCEPT !.wakeCh = 1, !.ppc = "wait",
                                !.woken = FALSE, !.waited = TRUE]
          ELSE pt' = [pt EXCEPT !.ppc = "timers"]
    /\ runningTasksMu' = Free
    /\ UNCHANGED <<runningTasks, cpuClockTickerRunning, cpuClock, tickPending,
                   tickTimer>>
    /\ PauseTimeFrame

\* cpuClockTickerStopCond.Wait() returns after the broadcast, with
\* runningTasksMu taken again.
PauseTime_Woken ==
    /\ pt.ppc = "wait"
    /\ pt.woken
    /\ runningTasksMu = Free
    /\ runningTasksMu' = PauserG
    /\ pt' = [pt EXCEPT !.ppc = "loop", !.woken = FALSE]
    /\ UNCHANGED <<runningTasks, cpuClockTickerRunning, cpuClock, tickPending,
                   tickTimer>>
    /\ PauseTimeFrame

\* The rest of pauseTimeLocked: the timers of every thread group and the
\* Timekeeper updates are paused, and the call returns.
PauseTime_Timers ==
    /\ pt.ppc = "timers"
    /\ pt' = [pt EXCEPT !.ppc = "returned"]
    /\ UNCHANGED <<runningTasks, runningTasksMu, cpuClockTickerRunning,
                   cpuClock, tickPending, tickTimer>>
    /\ PauseTimeFrame

pauseTimeLocked ==
    \/ PauseTime_Call
    \/ PauseTime_Lock
    \/ PauseTime_Loop
    \/ PauseTime_Woken
    \/ PauseTime_Timers

\* resumeTimeLocked: the ticker resumes by itself as task goroutines resume
\* execution.
resumeTimeLocked ==
    /\ pt.ppc = "returned"
    /\ pt' = [pt EXCEPT !.ppc = "idle"]
    /\ UNCHANGED <<runningTasks, runningTasksMu, cpuClockTickerRunning,
                   cpuClock, tickPending, tickTimer>>
    /\ PauseTimeFrame

\* Task goroutines run only on a started kernel whose time is not being
\* paused.
TasksMayRun == pt.tpc # "none" /\ pt.ppc = "idle"

\* A step of incRunningTasks by a task goroutine that may run. A tick is
\* taken at once or after the longest delay.
TaskRuns(g) ==
    /\ TasksMayRun
    /\ \/ IncCall(g) \/ IncLoad(g) \/ IncCAS(g) \/ IncLock(g)
       \/ IncRecheck(g) \/ IncLostAdd(g)
       \/ \E missedNS \in {0, MaxMissedNS} : IncTicker(g, missedNS)
       \/ IncStore(g) \/ IncUnlock(g)

TickerNext ==
    \/ \E g \in Goroutines : TaskRuns(g)
    \/ \E g \in Goroutines : decRunningTasks(g)
    \/ TimerFire
    \/ runCPUClockTicker
    \/ pauseTimeLocked
    \/ resumeTimeLocked

\* The same with NumPausedTasks task goroutines.
PauseTimeNext ==
    \/ \E g \in 1..NumPausedTasks : TaskRuns(g)
    \/ \E g \in 1..NumPausedTasks : decRunningTasks(g)
    \/ TimerFire
    \/ runCPUClockTicker
    \/ pauseTimeLocked
    \/ resumeTimeLocked

\* The state of the remaining groups when none of their operations has run.
RestNone ==
    /\ UserCountersNone
    /\ TaskSetNone
    /\ CgroupNone
    /\ PauseTimeNone
    /\ LocksNone

(***************************************************************************)
(* The specifications.                                                     *)
(***************************************************************************)
\* A kernel that Start has started, with every task goroutine blocked.
InitRunning ==
    /\ RunInit /\ KernStarted /\ SaveNone /\ ExtInit /\ LoadNone /\ ProcCreated
    /\ IdsInit /\ InitNone /\ RestNone

\* The running-task accounting of a kernel that Start has started.
SpecRunning == InitRunning /\ [][RunNext]_vars

\* A kernel whose ticker Start has launched, or one that was never started,
\* with every task goroutine blocked.
InitTicker ==
    /\ SaveNone /\ ExtInit /\ LoadNone /\ IdsInit /\ InitNone
    /\ UserCountersNone /\ TaskSetNone /\ CgroupNone /\ LocksNone
    /\ \/ RunInit /\ KernStarted /\ ProcCreated /\ pt = PauseTimeFresh("top")
       \/ RunIdle /\ KernInit /\ ProcInit /\ pt = PauseTimeFresh("none")

\* The ticker goroutine, the task goroutines and pauseTimeLocked.
SpecTicker == InitTicker /\ [][TickerNext]_vars

\* pauseTimeLocked on a kernel with NumPausedTasks task goroutines.
SpecPauseTime == InitTicker /\ [][PauseTimeNext]_vars

\* The same, where the ticker goroutine and the goroutine calling
\* pauseTimeLocked are scheduled again and again.
SpecPauseTimeFair ==
    /\ SpecPauseTime
    /\ WF_vars(runCPUClockTicker)
    /\ WF_vars(pauseTimeLocked)

\* The running-task accounting with decRunningTasks called at any time.
SpecDec == InitRunning /\ [][DecNext]_vars

\* RebuildTraceContexts on a started kernel.
SpecRebuild == InitRunning /\ [][RebuildNext]_vars

\* The same, where a goroutine inside RebuildTraceContexts or Start is
\* scheduled again and again, a task asked to stop reaches its next
\* quiescent point, and asynchronous I/O in flight completes.
SpecRebuildFair ==
    /\ SpecRebuild
    /\ \A c \in Callers : WF_vars(RebuildTraceContexts(c))
    /\ \A c \in Callers : WF_vars(Start_Body(c))
    /\ \A t \in Tasks : WF_vars(TaskStop(t))
    /\ WF_vars(AIODone)

\* A kernel after construction.
InitKernel ==
    /\ RunIdle /\ KernInit /\ SaveNone /\ ExtInit /\ LoadNone /\ ProcInit
    /\ IdsInit /\ InitNone /\ RestNone

\* The kernel's lifecycle from construction on.
SpecKernel == InitKernel /\ [][KernNext]_vars

\* WaitExited calls while tasks are created and end.
SpecWaitExited == InitKernel /\ [][WaitExitedNext]_vars

\* The same, where every goroutine calling WaitExited is scheduled again and
\* again. Nothing obliges a task to end.
SpecWaitExitedFair ==
    /\ SpecWaitExited
    /\ \A c \in Callers : WF_vars(WaitExited(c))

\* Hierarchies populated and released while tasks exit.
SpecCgroup == InitKernel /\ [][CgroupNext]_vars

SpecHierarchy == InitKernel /\ [][HierarchyNext]_vars

\* The operations of kernel.go that take locks, run concurrently.
SpecLocks == InitKernel /\ [][LocksNext]_vars

\* The same operations, and CreateProcess and Start with the context
\* lookups made under extMu.
SpecContextLocks == InitKernel /\ [][ContextLocksNext]_vars

\* Concurrent incRLimitNProc and decRLimitNProc calls on one UserCounters.
SpecNProc == InitKernel /\ [][NProcNext]_vars

\* Every method that takes extMu, called by concurrent callers from
\* construction on, with SaveTo calls on the paused kernel.
SpecExt == InitKernel /\ [][ExtNext]_vars

\* A new Kernel of which MaxRegistryCalls calls are followed.
InitRegistry ==
    /\ RunIdle /\ KernInit /\ SaveNone /\ LoadNone /\ ProcInit
    /\ IdsInit /\ InitNone /\ RestNone
    /\ ext = ExtFresh(MaxRegistryCalls)

\* The socket table and the save status.
RegistryNext ==
    \/ \E c \in Callers, sock \in Socks : RecordSocket(c, sock)
    \/ \E c \in Callers, sock \in Socks : DeleteSocket(c, sock)
    \/ \E c \in Callers, autosave \in BOOLEAN : SetSaveSuccess(c, autosave)
    \/ \E c \in Callers, err \in SaveErrors \cup {"nil"} : SetSaveError(c, err)

SpecRegistry == InitRegistry /\ [][RegistryNext]_vars

\* Init called on a new Kernel.
SpecInit == InitKernel /\ [][InitCallNext]_vars

\* Concurrent UniqueID calls.
UniqueIDNext == \E g \in Goroutines : UniqueID(g)

SpecUniqueID == InitKernel /\ [][UniqueIDNext]_vars

\* Concurrent GenerateInotifyCookie calls.
CookieNext ==
    \/ \E g \in Goroutines : Cookie_Add(g)
    \/ \E g \in Goroutines : Cookie_AddAgain(g)

SpecCookie == InitKernel /\ [][CookieNext]_vars

\* The thread groups of a kernel on which group signals are sent.
ThreadGroups == 1..NumThreadGroups

\* A kernel on which NumThreadGroups processes were created and none
\* started; the first is the global init.
InitSignal ==
    /\ RunIdle /\ SaveNone /\ LoadNone /\ IdsInit /\ InitNone /\ RestNone
    /\ ext = ExtFresh(MaxSignalCalls)
    /\ extMu = Free
    /\ started = FALSE
    /\ stopCount = 0
    /\ tstate = [t \in ThreadGroups |-> "created"]
    /\ taskStarts = [t \in ThreadGroups |-> 0]
    /\ aioGoroutines = 0
    /\ tickerLaunches = 0
    /\ timePaused = FALSE
    /\ cpc = [c \in Callers |-> "idle"]
    /\ pausesReturned = 0
    /\ pauseCalls = 0
    /\ unpauseCalls = 0
    /\ startOk = 0
    /\ startErr = 0
    /\ proc = [globalInit |-> 1,
               tg |-> [t \in ThreadGroups |-> "live"],
               ret |-> [t \in ThreadGroups |-> "ok"],
               refs |-> [t \in ThreadGroups |-> TaskRefs]]

\* Signals sent to process groups and containers.
SignalNext ==
    \/ \E c \in Callers, tg \in ThreadGroups : SendExternalSignalThreadGroup(c, tg)
    \/ \E order \in Perms(tids) :
          \E c \in Callers, pg \in ProcessGroups :
          \E failing \in SUBSET {t \in tids : ProcessGroupOf(t) = pg} :
             SendExternalSignalProcessGroup(c, pg, order, failing)
    \/ \E order \in Perms(tids) :
          \E c \in Callers, cid \in CIDs :
          \E failing \in SUBSET {t \in tids : ContainerOf(t) = cid} :
             SendContainerSignal(c, cid, order, failing)

SpecSignal == InitSignal /\ [][SignalNext]_vars

\* CreateProcess with every combination of arguments, Start and StartProcess.
CreateNext ==
    \/ \E c \in Callers, t \in Tasks, args \in CreateArgs :
          CreateProcess(c, t, args)
    \/ \E t \in Tasks : StartProcess(t)
    \/ \E c \in Callers : Start_Lock(c)
    \/ \E c \in Callers : Start_Body(c)

\* CreateProcess calls with any arguments on a kernel after construction.
SpecCreate == InitKernel /\ [][CreateNext]_vars

\* A new Kernel on which LoadFrom is called, with any stream and arguments.
InitLoad ==
    /\ RunIdle /\ KernInit /\ SaveNone /\ ExtInit /\ LoadAny /\ ProcInit
    /\ IdsInit /\ InitNone /\ RestNone

\* LoadFrom called once on a new Kernel.
SpecLoad == InitLoad /\ [][LoadNext]_vars

\* A started, paused kernel and any arguments and environment of SaveTo.
InitSave ==
    /\ RunInit /\ KernPaused /\ SaveAny /\ ExtInit /\ LoadNone /\ ProcCreated
    /\ IdsInit /\ InitNone /\ RestNone

\* SaveTo calls on a started, paused kernel, with every combination of
\* stream arguments, network stack, private memory files and failing
\* collaborator.
SpecSave == InitSave /\ [][SaveNext]_vars

\* A started, paused kernel on which SaveTo is called with w alone.
InitSaveExternal ==
    /\ RunInit /\ KernPaused /\ SaveNone /\ ExtInit /\ LoadNone /\ ProcCreated
    /\ IdsInit /\ InitNone /\ RestNone

\* Caller c is not inside SaveTo and no other caller is walking the tasks.
MayWalk(c) ==
    /\ cpc[c] = "idle"
    /\ \A d \in Callers \ {c} : cg.walk[d].op = "none"

\* SaveTo, and the methods that do not take extMu: GetUserCounters at any
\* time, the cgroup methods one call at a time.
SaveExternalNext ==
    \/ SaveNext
    \/ \E uid \in UIDs : GetUserCounters(uid)
    \/ \E c \in Callers : MayWalk(c) /\ PopulateNewCgroupHierarchy(c)
    \/ \E c \in Callers : MayWalk(c) /\ ReleaseCgroupHierarchy(c)

SpecSaveExternal == InitSaveExternal /\ [][SaveExternalNext]_vars

(***************************************************************************)
(* C1.  Running-task accounting.                                           *)
(***************************************************************************)
\* A task goroutine is executing from the moment its increment has taken
\* effect (the successful CompareAndSwap, the Add(1) of the lost race or the
\* Store(1)) until its decrement.
Executing(g) == gpc[g] \in {"unlock", "running"}

\* No call of incRunningTasks or decRunningTasks is in progress.
RunQuiescent == \A g \in Goroutines : gpc[g] \in {"blocked", "running"}

\* C1: under every interleaving of incRunningTasks and decRunningTasks calls
\* in which each decrement follows its own increment, runningTasks is never
\* negative, no update is lost (the counter equals the number of increments
\* that took effect minus the decrements, in particular once all calls have
\* returned), and the counter is 0 exactly when no task is executing.
C1_RunningTasksExact ==
    /\ runningTasks >= 0
    /\ runningTasks = Cardinality({g \in Goroutines : Executing(g)})
    /\ RunQuiescent =>
         runningTasks = Cardinality({g \in Goroutines : gpc[g] = "running"})
    /\ (runningTasks = 0) <=> (\A g \in Goroutines : ~Executing(g))
    /\ \A g \in Goroutines : gpc[g] # "panicked"

\* Three calls race: one task executes, a second holds runningTasksMu after
\* losing the 0 -> 1 race and is about to Add(1), a third is about to
\* CompareAndSwap.
C1_Witness ==
    \E g, h, i \in Goroutines :
        /\ gpc[g] = "running"
        /\ gpc[h] = "lostadd"
        /\ gpc[i] = "cas"
        /\ runningTasks = 1

(***************************************************************************)
(* C2, C3.  Pause / Unpause.                                               *)
(***************************************************************************)
\* C2: from the moment a Pause call has returned until the Unpause calls
\* have brought the nesting count back to zero, no task goroutine is running
\* and no asynchronous I/O is in flight, whatever CreateProcess, Start,
\* StartProcess and further Pause calls are interleaved; so Pause returns
\* only once every task goroutine and every asynchronous I/O has stopped.
C2_PausedMeansQuiescent ==
    pausesReturned > 0 =>
        /\ runningGoroutines = 0
        /\ aioGoroutines = 0
        /\ isExternallyStopped

\* A Pause has returned, a second Pause is nested in it, and a task whose
\* goroutine was started is held stopped.
C2_Witness ==
    /\ pausesReturned > 0
    /\ stopCount = 2
    /\ \E t \in Tasks : tstate[t] = "stopped" /\ taskStarts[t] = 1

\* C3: Pause calls nest. The nesting count is the number of Pause calls
\* minus the number of Unpause calls, IsPaused reports true exactly while it
\* is positive, and a stopped task is released only by the Unpause call that
\* brings it to zero: after N Pause calls the first N-1 Unpause calls release
\* nothing and the N-th does.
C3_PauseNests ==
    /\ [](stopCount = pauseCalls - unpauseCalls)
    /\ [](isExternallyStopped <=> pauseCalls > unpauseCalls)
    /\ [][(\E t \in Tasks : tstate[t] = "stopped" /\ tstate'[t] = "running")
            => /\ unpauseCalls' = unpauseCalls + 1
               /\ pauseCalls' = unpauseCalls']_vars
    /\ [][(unpauseCalls' = unpauseCalls + 1 /\ pauseCalls' = unpauseCalls')
            => \A t \in Tasks : tstate'[t] # "stopped"]_vars

\* Two Pause calls and one Unpause call have been made: the kernel still
\* reports paused and a task is still stopped.
C3_Witness ==
    /\ pauseCalls = 2
    /\ unpauseCalls = 1
    /\ isExternallyStopped
    /\ \E t \in Tasks : tstate[t] = "stopped"

(***************************************************************************)
(* C10.  Start.                                                            *)
(***************************************************************************)
\* C10: over any sequence of concurrent Start calls exactly one succeeds. It
\* sets started, launches one ticker goroutine and calls Task.Start once for
\* every registered task; every other call returns the error and changes no
\* kernel state.
C10_StartOnce ==
    /\ [](/\ startOk <= 1
          /\ tickerLaunches = startOk
          /\ started <=> startOk = 1
          /\ startOk + startErr > 0 => startOk = 1
          /\ \A t \in Tasks : taskStarts[t] <= 1)
    /\ [][startOk' = startOk + 1 =>
            /\ started'
            /\ tickerLaunches' = tickerLaunches + 1
            /\ \A t \in tids : /\ taskStarts'[t] = taskStarts[t] + 1
                               /\ tstate'[t] # "created"]_vars
    /\ [][startErr' = startErr + 1 =>
            UNCHANGED <<started, tickerLaunches, taskStarts, tstate,
                        stopCount, aioGoroutines, timePaused, pausesReturned,
                        pauseCalls, unpauseCalls, startOk, runVars>>]_vars

\* A second Start call has returned the error after the first one started a
\* task.
C10_Witness ==
    /\ startOk = 1
    /\ startErr = 1
    /\ \E t \in Tasks : taskStarts[t] = 1


(***************************************************************************)
(* SaveTo: order of the steps, streams, private memory files.              *)
(***************************************************************************)
\* saveMemoryFiles has been entered, by the goroutine or by SaveTo itself.
MFStarted == save.mfPc # "none"

\* The steps of SaveTo's own path complete in the order of the code, and
\* invalidation starts only once the evictions have finished.
MainStepsInOrder ==
    /\ "waitEvict" \in save.done => "startEvict" \in save.done
    /\ "invalidate" \in save.done => "waitEvict" \in save.done
    /\ save.pc \in {"invalidate", "prepare", "mark", "spawn", "cpuid", "net",
                    "kernel", "mf", "join"} => ~save.evicting
    /\ "prepare" \in save.done => "invalidate" \in save.done
    /\ "mark" \in save.done => "prepare" \in save.done
    /\ "cpuid" \in save.done => "mark" \in save.done
    /\ "net" \in save.done => "cpuid" \in save.done
    /\ save.netPaused => "cpuid" \in save.done
    /\ "kernel" \in save.done => "net" \in save.done
    /\ "kernel" \in save.done /\ saveEnv.netStack /\ save.pc \in {"mf", "join"}
          => save.netPaused

\* C5 as stated: the steps of SaveTo run in the order evictions, invalidation,
\* CPU feature set, network pause, kernel graph, memory files, and the
\* memory-file save overlaps nothing but the kernel-graph save.
C5_Original ==
    /\ MainStepsInOrder
    /\ MFStarted => "net" \in save.done
    /\ MFStarted /\ ~parallelMfSave => "kernel" \in save.done

\* C5, amended: steps 1 to 5 of SaveTo run in the stated order, each after
\* the previous one has completed. Without both pages streams the
\* memory-file save starts only after the kernel graph has been written.
\* With both, it starts once the mappings are invalidated and the memory
\* files are marked savable, so it may overlap the writing of the CPU feature
\* set, the network pause and the kernel-graph save; SaveTo returns only
\* after it has finished.
C5_SaveOrder ==
    /\ MainStepsInOrder
    /\ MFStarted => "invalidate" \in save.done /\ "mark" \in save.done
    /\ MFStarted /\ ~parallelMfSave => "kernel" \in save.done
    /\ save.pc \in {"deferResume", "unlock", "idle"} => save.mfPc \in {"none", "done"}

\* The memory-file save has written the main memory file while SaveTo has
\* not yet written the CPU feature set nor paused the network stack.
C5_Witness ==
    /\ save.pc = "cpuid"
    /\ "mf" \in save.done
    /\ "cpuid" \notin save.done
    /\ saveEnv.netStack /\ ~save.netPaused

\* The kinds of the records of a stream, in order.
Kinds(st) == [i \in 1..Len(save.out[st]) |-> save.out[st][i].kind]

\* The writers of a stream.
Writers(st) == {save.out[st][i].by : i \in 1..Len(save.out[st])}

\* Sequence a is a prefix of sequence b.
IsPrefix(a, b) == Len(a) <= Len(b) /\ \A i \in 1..Len(a) : a[i] = b[i]

\* C6: the memory-file save runs in its own goroutine, concurrently with
\* SaveTo's own writes, iff both pagesMetadata and pagesFile are supplied;
\* then only SaveTo writes w, which receives the CPU feature set followed by
\* the kernel graph and nothing else; otherwise every memory-file record is
\* written after the kernel graph.
C6_ParallelIffBothStreams ==
    /\ MFStarted =>
         (save.mfBy = "goroutine" <=> saveEnv.pagesMetadata /\ saveEnv.pagesFile)
    /\ save.mfPc \in {"main", "privmeta", "privfile"} /\ save.pc \in {"cpuid", "net", "kernel"}
         => saveEnv.pagesMetadata /\ saveEnv.pagesFile
    /\ saveEnv.pagesMetadata /\ saveEnv.pagesFile =>
         /\ Writers("w") \subseteq {"SaveTo"}
         /\ IsPrefix(Kinds("w"), <<"cpuid", "kernel">>)
         /\ save.result = "ok" => Kinds("w") = <<"cpuid", "kernel">>
         /\ Writers("pagesMetadata") \cup Writers("pagesFile") \subseteq {"goroutine"}
    /\ ~(saveEnv.pagesMetadata /\ saveEnv.pagesFile) =>
         /\ MFStarted => "kernel" \in save.done /\ save.pc \notin {"cpuid", "net", "kernel"}
         /\ Writers("w") \cup Writers("pagesMetadata") \cup Writers("pagesFile")
               \subseteq {"SaveTo"}
         /\ IsPrefix(<<"cpuid", "kernel">>, Kinds("w")) \/ IsPrefix(Kinds("w"), <<"cpuid">>)
         /\ Len(save.out.pagesMetadata) + Len(save.out.pagesFile) > 0
               => IsPrefix(<<"cpuid", "kernel">>, Kinds("w"))

\* The goroutine has written private memory files to the pages streams while
\* SaveTo is about to write the kernel graph to w.
C6_Witness ==
    /\ save.pc = "kernel"
    /\ save.mfBy = "goroutine"
    /\ save.mfPc = "privfile"
    /\ Len(save.out.pagesFile) >= 2
    /\ Kinds("w") = <<"cpuid">>

\* The owner lists of the metadata records written to the metadata stream.
OwnerLists ==
    SelectSeq(save.out[pmw], LAMBDA e : e.kind = "priv.owners")

\* The owners of the private memory files written, in the order written.
FilesWritten ==
    LET files == SelectSeq(save.out[pw], LAMBDA e : e.kind = "priv.pages")
    IN  [i \in 1..Len(files) |-> files[i].owner]

\* The position of owner f in the list, 0 if it is not in it.
PosIn(f, list) ==
    IF \E i \in 1..Len(list) : list[i] = f
       THEN CHOOSE i \in 1..Len(list) : list[i] = f
       ELSE 0

\* C7: savePrivateMFs writes one metadata record that lists the owner of
\* every private memory file exactly once, then the files in the order of
\* that list, stopping at the first file that fails: the i-th file written
\* belongs to the i-th listed owner.
C7_PrivateFilesInListedOrder ==
    /\ Len(OwnerLists) <= 1
    /\ Len(OwnerLists) = 0 => FilesWritten = <<>>
    /\ Len(OwnerLists) = 1 =>
         LET owners == OwnerLists[1].list IN
         /\ {owners[i] : i \in 1..Len(owners)} = save.mfsToSave
         /\ Len(owners) = Cardinality(save.mfsToSave)
         /\ IsPrefix(FilesWritten, owners)
         /\ PosIn(faults.file, owners) > 0
               => Len(FilesWritten) < PosIn(faults.file, owners)
         /\ save.mfPc = "done" =>
               Len(FilesWritten) = IF PosIn(faults.file, owners) > 0
                                      THEN PosIn(faults.file, owners) - 1
                                      ELSE Len(owners)
         /\ save.mfPc = "done" =>
               (save.mfSaveErr = "err.privfile" <=> PosIn(faults.file, owners) > 0)

\* Two private memory files, listed in the order 2, 1; the first one has
\* been written and the second one fails.
C7_Witness ==
    /\ Len(OwnerLists) = 1
    /\ OwnerLists[1].list = <<2, 1>>
    /\ FilesWritten = <<2>>
    /\ faults.file = 1
    /\ save.mfSaveErr = "err.privfile"



(***************************************************************************)
(* SaveTo and the other holders of extMu.                                  *)
(***************************************************************************)
\* A SaveTo call is between its k.extMu.Lock() and its return.
InSaveTo == save.pc # "idle"

\* C4: SaveTo holds extMu from its first statement to its return, and while
\* it does no call of CreateProcess, Start, Kill, Pause, Unpause, the
\* external signal senders, RecordSocket, DeleteSocket,
\* RegisterContainerName, RestoreContainerMapping, SetSaveSuccess or
\* SetSaveError changes the kernel: each takes effect before SaveTo starts or
\* after it has returned. An Unpause called during SaveTo waits for the lock:
\* the kernel stays externally stopped and no stopped task is released until
\* SaveTo has returned.
C4_SaveToExcludesExternalChanges ==
    /\ [](InSaveTo => \E c \in Callers : extMu = c /\ cpc[c] = "SaveTo")
    /\ [](InSaveTo => isExternallyStopped /\ runningGoroutines = 0)
    /\ [][InSaveTo =>
            /\ UNCHANGED <<started, stopCount, pauseCalls, unpauseCalls,
                           startOk, startErr, tickerLaunches, ext>>
            /\ \A t \in Tasks :
                 /\ tstate[t] = "none" => tstate'[t] = "none"
                 /\ tstate[t] = "stopped" => tstate'[t] = "stopped"]_vars

\* SaveTo is writing the kernel graph while another caller's Unpause, which
\* would release the stopped tasks, waits for extMu; registry calls were made
\* before SaveTo started.
C4_Witness ==
    /\ save.pc = "kernel"
    /\ \E c \in Callers : cpc[c] = "Unpause"
    /\ stopCount = 1
    /\ \E t \in Tasks : tstate[t] = "stopped"
    /\ ext.calls > 0


(***************************************************************************)
(* LoadFrom.                                                               *)
(***************************************************************************)
\* LoadFrom has returned or panicked.
LoadDone == load.pc = "done"

\* C8 as stated: when LoadFrom fails on an incompatible CPU feature set, no
\* field of the Kernel differs from its value before the call.
C8_Original ==
    load.result = "err.incompatible" => load.k = load.k0

\* C8, amended: on a stream whose CPU feature set the host cannot run,
\* LoadFrom returns the compatibility error without loading any of the kernel
\* graph and without any later restore step; of the Kernel it has changed
\* only the synchronization fields it initializes on entry and featureSet,
\* which holds the feature set of the stream.
C8_IncompatibleFailsBeforeKernelLoad ==
    /\ LoadDone /\ ~CheckHostCompatible(load.in.stream.featureSet)
          /\ load.in.fault # "cpuid"
          => load.result = "err.incompatible"
    /\ ~CheckHostCompatible(load.in.stream.featureSet) => load.k.graph = "no"
    /\ load.result = "err.incompatible" =>
         /\ ~CheckHostCompatible(load.in.stream.featureSet)
         /\ load.k = [load.k0 EXCEPT !.syncReady = TRUE,
                                     !.featureSet = load.in.stream.featureSet]
         /\ load.k # load.k0
         /\ ~load.timeReadyClosed

\* LoadFrom has failed on an incompatible stream and the Kernel holds the
\* stream's feature set instead of its own.
C8_Witness ==
    /\ load.result = "err.incompatible"
    /\ load.k0.featureSet = HostFeatures
    /\ load.k.featureSet = {"avx"}
    /\ load.k.syncReady

\* C9: when LoadFrom comes to its end with useHostCores set in the loaded
\* kernel and a core count before the load greater than the loaded one, it
\* returns the core-count error, so a LoadFrom that returns nil never has
\* both; with useHostCores clear in the loaded kernel, or a count before the
\* load that is not greater, the core-count error is never returned.
C9_CoreIncreaseRejected ==
    /\ load.result = "err.cores" <=>
         /\ LoadDone
         /\ load.k.vfsRestored
         /\ load.in.stream.useHostCores
         /\ load.k0.applicationCores > load.in.stream.applicationCores
    /\ load.result = "err.cores" =>
         /\ load.k.useHostCores = load.in.stream.useHostCores
         /\ load.k.applicationCores = load.in.stream.applicationCores
         /\ load.initAppCores = load.k0.applicationCores
    /\ load.result = "nil" =>
         ~(load.in.stream.useHostCores
             /\ load.k0.applicationCores > load.in.stream.applicationCores)
    /\ LoadDone /\ load.k.vfsRestored
         /\ ~(load.in.stream.useHostCores
                /\ load.k0.applicationCores > load.in.stream.applicationCores)
         => load.result = "nil"

\* LoadFrom has rejected a checkpoint with useHostCores and one core, loaded
\* into a Kernel that had two cores and useHostCores clear.
C9_Witness ==
    /\ load.result = "err.cores"
    /\ ~load.k0.useHostCores
    /\ load.k0.applicationCores = 2
    /\ load.k.applicationCores = 1


C12_GlobalInitSetOnce ==
    /\ [](proc.globalInit = 0 <=> \A t \in Tasks : proc.ret[t] # "ok")
    /\ [](proc.globalInit # 0 =>
            proc.ret[proc.globalInit] = "ok" /\ proc.tg[proc.globalInit] = "live")
    /\ [][proc.globalInit # 0 => proc'.globalInit = proc.globalInit]_vars
    /\ [][proc.globalInit = 0 /\ proc'.globalInit # 0 =>
            /\ proc.ret[proc'.globalInit] = "none"
            /\ proc'.ret[proc'.globalInit] = "ok"]_vars
    /\ [][\A t \in Tasks :
            proc.ret[t] = "none" /\ proc'.ret[t] \notin {"none", "ok"}
               => proc'.globalInit = proc.globalInit]_vars

\* The second task was created first and is the global init; the first task
\* was created later, also successfully.
C12_Witness ==
    /\ proc.globalInit = 2
    /\ proc.ret[1] = "ok"
    /\ proc.ret[2] = "ok"

\* Arguments with an empty Filename, no File and an Argv that is empty or
\* starts with a relative path.
BadArgvArgs ==
    {args \in CreateArgs :
        ~args.filename /\ ~args.file /\ args.argv \in {"empty", "relative"}}

\* C13: CreateProcess with an empty Filename, no File and an Argv that is
\* empty or whose first element is not an absolute path returns an error,
\* registers no task, leaves no thread group allocated (the one it allocated
\* is released) and does not change globalInit.
C13_BadArgvRejected ==
    /\ [](\A args \in BadArgvArgs :
            CreateResult(args) \in {"err.mntns", "err.wd", "err.nofile", "err.notabs"})
    /\ [](\A t \in Tasks :
            proc.ret[t] \in {"err.nofile", "err.notabs"} =>
               tstate[t] = "none" /\ proc.tg[t] = "released"
               /\ proc.globalInit # t)
    /\ [][\A t \in Tasks :
            proc.ret[t] = "none" /\ proc'.ret[t] \in {"err.nofile", "err.notabs"}
               => /\ tstate' = tstate
                  /\ proc'.tg[t] = "released"
                  /\ \A u \in Tasks \ {t} : proc'.tg[u] = proc.tg[u]
                  /\ proc'.globalInit = proc.globalInit]_vars

\* After a successful CreateProcess, a call with a relative Argv[0] was
\* rejected: no task, its thread group released, globalInit still the first.
C13_Witness ==
    /\ proc.ret[1] = "ok" /\ proc.globalInit = 1
    /\ proc.ret[2] = "err.notabs"
    /\ tstate[2] = "none"
    /\ proc.tg[2] = "released"


(***************************************************************************)
(* Signals to a process group or a container.                              *)
(***************************************************************************)
\* The first and the last thread group of the last call whose delivery
\* failed, 0 if none failed.
FirstFailed ==
    IF ext.failed = {} THEN 0
    ELSE ext.attempted[CHOOSE i \in DOMAIN ext.attempted :
            /\ ext.attempted[i] \in ext.failed
            /\ \A j \in 1..(i - 1) : ext.attempted[j] \notin ext.failed]

LastFailed ==
    IF ext.failed = {} THEN 0
    ELSE ext.attempted[CHOOSE i \in DOMAIN ext.attempted :
            /\ ext.attempted[i] \in ext.failed
            /\ \A j \in (i + 1)..Len(ext.attempted) :
                  ext.attempted[j] \notin ext.failed]

\* The last call tried each thread group of set S exactly once, and no other.
AttemptedExactly(S) ==
    /\ Range(ext.attempted) = S
    /\ Len(ext.attempted) = Cardinality(S)

\* C14: SendExternalSignalProcessGroup attempts delivery to every thread
\* group of the process group, also after a delivery failed, to no thread
\* group outside it, and returns the error of the first failed delivery, nil
\* if none failed.
C14_ProcessGroupBestEffort ==
    ext.sigCall.op = "pg" =>
       /\ AttemptedExactly({t \in tids : ProcessGroupOf(t) = ext.sigCall.target})
       /\ ext.sigRet = FirstFailed

\* A process group of three: the second delivery failed, the third was
\* still attempted and also failed, and the second's error is returned.
C14_Witness ==
    /\ ext.sigCall = [op |-> "pg", target |-> "pg2"]
    /\ Len(ext.attempted) = 3
    /\ ext.failed = {ext.attempted[2], ext.attempted[3]}
    /\ ext.sigRet = ext.attempted[2]
    /\ ext.attempted[1] \in ext.pending

\* C15 as stated: SendContainerSignal attempts every thread group of the
\* container and returns the error of the first failed delivery.
C15_Original ==
    ext.sigCall.op = "cid" =>
       /\ AttemptedExactly({t \in tids : ContainerOf(t) = ext.sigCall.target})
       /\ ext.sigRet = FirstFailed

\* C15: SendContainerSignal attempts delivery to every thread group whose
\* leader is in the container, also after a delivery failed, and returns the
\* error of the last failed delivery, nil if none failed.
C15_ContainerReturnsLastError ==
    ext.sigCall.op = "cid" =>
       /\ AttemptedExactly({t \in tids : ContainerOf(t) = ext.sigCall.target})
       /\ ext.sigRet = LastFailed

\* A container of three: the first and the third delivery failed, the second
\* succeeded, and the third's error is returned.
C15_Witness ==
    /\ ext.sigCall = [op |-> "cid", target |-> "c2"]
    /\ Len(ext.attempted) = 3
    /\ ext.failed = {ext.attempted[1], ext.attempted[3]}
    /\ ext.attempted[2] \in ext.pending
    /\ ext.sigRet = ext.attempted[3]


C17_Original == 0 \notin ids.cookieSeen

\* A first Add has wrapped the counter to 0 without a panic, values from
\* before the wrap were returned again, and a second Add has returned 0.
C17_Witness ==
    /\ ids.cookieSkips = 1
    /\ ids.cookieTwice
    /\ 0 \in ids.cookieSeen
    /\ \A g \in Goroutines : ids.cookiePc[g] = "idle"


(***************************************************************************)
(* Save status and socket table.                                           *)
(***************************************************************************)
\* What SaveStatus reports after a first call with the given outcome.
Reported(outcome) ==
    CASE outcome = "none" -> <<FALSE, FALSE, "nil">>
      [] outcome = "errSaved" -> <<TRUE, FALSE, "nil">>
      [] outcome = "errAutoSaved" -> <<TRUE, TRUE, "nil">>
      [] OTHER -> <<FALSE, FALSE, outcome>>

\* C18: before any SetSaveSuccess or SetSaveError(non-nil) call SaveStatus
\* reports (false, false, nil); afterwards it reports the outcome of the
\* first such call, and a status once set never changes.
C18_SaveStatusSetOnce ==
    /\ [](SaveStatus = Reported(ext.firstSave))
    /\ [][ext.saveStatus # "nil" => ext'.saveStatus = ext.saveStatus]_vars

\* An error was reported first; a SetSaveSuccess and a SetSaveError with
\* another error followed, and SaveStatus still reports the first error.
C18_Witness ==
    /\ ext.firstSave = "err1"
    /\ ext.calls >= 3
    /\ SaveStatus = <<FALSE, FALSE, "err1">>

\* C19: ListSockets holds exactly one record for each socket recorded and
\* not since deleted; RecordSocket of a socket in the table panics and
\* leaves the table alone; DeleteSocket of an absent socket changes nothing;
\* record IDs are handed out in strictly increasing order, so none is used
\* twice, also after a deletion.
C19_SocketTable ==
    /\ []({r.sock : r \in ListSockets} = ext.recorded)
    /\ [](Cardinality(ListSockets) = Cardinality(ext.recorded))
    /\ [](\A i, j \in DOMAIN ext.issued : i < j => ext.issued[i] < ext.issued[j])
    /\ [](\A r \in ListSockets : r.id \in Range(ext.issued))
    /\ [][\A c \in Callers, sock \in Socks :
            RecordSocket(c, sock) /\ sock \in ext.recorded =>
               cpc'[c] = "panicked" /\ ListSockets' = ListSockets]_vars
    /\ [][\A c \in Callers, sock \in Socks :
            DeleteSocket(c, sock) =>
               /\ sock \notin ext.recorded => ListSockets' = ListSockets
               /\ ListSockets' = {r \in ListSockets : r.sock # sock}]_vars

\* Two sockets were recorded, the first was deleted and recorded again: it
\* is listed once, under an ID higher than both earlier ones.
C19_Witness ==
    /\ ext.issued = <<0, 1, 2>>
    /\ \E r \in ListSockets : r.id = 2 /\ \E q \in ListSockets : q.id = 1 /\ q.sock # r.sock
    /\ Cardinality(ListSockets) = 2

\* Init called with a nil Timekeeper, a Timekeeper without clocks, a nil
\* root user namespace or ApplicationCores 0.
BadInitArgs ==
    {args \in InitKernelArgs :
        \/ args.Timekeeper \in {"nil", "noclocks"}
        \/ args.RootUserNamespace = "nil"
        \/ args.ApplicationCores = 0}

\* C20: Init with a nil Timekeeper, a Timekeeper without clocks, a nil root
\* user namespace or ApplicationCores 0 returns an error and leaves every
\* Kernel field as it was.
C20_ConfigErrorsLeaveKernelUnchanged ==
    /\ \A args \in InitKernelArgs :
          InitReturn(args) \in ConfigErrors <=> args \in BadInitArgs
    /\ [][kinit'.calls # kinit.calls /\ kinit'.ret \in ConfigErrors =>
            kinit'.k = kinit.k]_vars
    /\ [](kinit.ret \in ConfigErrors /\ kinit.calls = 1 => kinit.k = ZeroKernel)

\* Init has returned the error for ApplicationCores 0 and the Kernel is as
\* it was before the call.
C20_Witness ==
    /\ kinit.calls = 1
    /\ kinit.ret = "err.cores"
    /\ kinit.k = ZeroKernel

\* C30: under its precondition pauseTimeLocked returns: every call is
\* followed by its return. Once its wait loop has ended
\* cpuClockTickerRunning is false; the wake channel never holds more than
\* its one slot; and on a kernel whose ticker was never started the call
\* returns without having waited.
C30_PauseTimeReturns ==
    /\ [](pt.ppc \in {"timers", "returned"} => ~cpuClockTickerRunning)
    /\ [](pt.wakeCh \in {0, 1})
    /\ [](pt.tpc = "none" => ~pt.waited /\ pt.ppc # "wait")
    /\ (pt.ppc # "idle") ~> (pt.ppc = "returned")

\* A call that waited for the ticker to park has returned.
C30_Witness == pt.ppc = "returned" /\ pt.waited /\ pt.tpc = "parked"

\* C27: on a started kernel, whenever runningTasksMu is not held, a
\* nonzero running count implies that cpuClockTickerRunning is true, so a
\* parked ticker with tasks running has its wakeup pending; and
\* cpuClockTickerRunning goes from true to false only by the ticker, holding
\* runningTasksMu, with a running count of zero.
C27_RunningImpliesTicker ==
    /\ [](pt.tpc # "none" /\ runningTasksMu = Free /\ runningTasks > 0
            => cpuClockTickerRunning)
    /\ [][cpuClockTickerRunning /\ ~cpuClockTickerRunning'
            => runningTasks = 0 /\ runningTasksMu = TickerG]_vars

\* Tasks are running while the ticker has not yet returned from its wait.
C27_Witness ==
    /\ runningTasksMu = Free
    /\ runningTasks > 0
    /\ pt.tpc = "parked"
    /\ cpuClockTickerRunning

\* C28: a task goroutine takes a pending tick only in incRunningTasks, while
\* it holds runningTasksMu with a running count of zero (the zero-to-one
\* transition) and cpuClockTickerRunning false, which it then sets; and
\* from one park of the ticker to the next at most one tick is taken that
\* way.
C28_OneTickOnBehalf ==
    /\ [][tickTimer'.taken > tickTimer.taken
            => /\ runningTasks = 0
               /\ runningTasksMu \in Goroutines
               /\ gpc[runningTasksMu] = "ticker"
               /\ gpc'[runningTasksMu] = "store"
               /\ tickPending
               /\ ~cpuClockTickerRunning
               /\ cpuClockTickerRunning']_vars
    /\ [](tickTimer.taken <= 1)

\* A task took a tick for the parked ticker and is running.
C28_Witness ==
    /\ tickTimer.taken = 1
    /\ runningTasks > 0
    /\ \E g \in Goroutines : gpc[g] = "running"

\* C29: when incRunningTasks takes a tick that fired missedNS ago, it
\* re-arms the timer with ClockTick - (missedNS mod ClockTick), a duration d
\* with 0 < d <= ClockTick, and advances cpuClock by exactly 1, however many
\* whole ticks were missed.
C29_RearmRemainder ==
    /\ [](/\ tickTimer.armed = ClockTick - (tickTimer.missedNS % ClockTick)
          /\ 0 < tickTimer.armed
          /\ tickTimer.armed <= ClockTick)
    /\ [][tickTimer'.taken > tickTimer.taken
            => /\ cpuClock' = cpuClock + 1
               /\ tickTimer'.armed =
                     ClockTick - (tickTimer'.missedNS % ClockTick)]_vars

\* A tick taken after two whole ticks and a part of a third were missed: the
\* clock advanced by one and the timer is armed for the remainder.
C29_Witness ==
    /\ tickTimer.taken = 1
    /\ tickTimer.missedNS > 2 * ClockTick
    /\ tickTimer.armed < ClockTick
    /\ cpuClock = 1

\* C25 as stated: cpuClock never decreases, and no increment of it, by the
\* ticker or by incRunningTasks, happens in a state where runningTasks is 0.
C25_Original ==
    [][cpuClock' # cpuClock => cpuClock' > cpuClock /\ runningTasks # 0]_vars

\* C25: cpuClock never decreases and advances by one at a time. The ticker
\* advances it only while cpuClockTickerRunning is true. incRunningTasks
\* advances it only in the zero-to-one transition: holding runningTasksMu,
\* with cpuClockTickerRunning false and runningTasks still 0, before it
\* stores 1 in runningTasks under the same mutex.
C25_ClockAdvance ==
    /\ [][cpuClock' # cpuClock
            => /\ cpuClock' = cpuClock + 1
               /\ \/ /\ gpc' = gpc
                     /\ cpuClockTickerRunning
                     /\ pt.tpc = "select"
                  \/ /\ runningTasksMu \in Goroutines
                     /\ gpc[runningTasksMu] = "ticker"
                     /\ gpc'[runningTasksMu] = "store"
                     /\ ~cpuClockTickerRunning
                     /\ runningTasks = 0]_vars
    /\ [](\A g \in Goroutines :
             gpc[g] = "store" => runningTasksMu = g /\ runningTasks = 0)

\* incRunningTasks has advanced the clock and is about to store 1 in
\* runningTasks.
C25_Witness ==
    \E g \in Goroutines :
        /\ gpc[g] = "store"
        /\ cpuClock > 0
        /\ tickTimer.taken = 1
        /\ runningTasks = 0

\* C26: a decRunningTasks call made while the running count is 0 panics:
\* the goroutine never returns from it. No goroutine returns from
\* decRunningTasks leaving a negative count: the count is negative only in
\* a program that a panic has ended, and then it is -1.
C26_DecAtZeroPanics ==
    /\ [][\A g \in Goroutines :
            (gpc'[g] # gpc[g] /\ runningTasks' < runningTasks
                /\ runningTasks = 0)
            => gpc'[g] = "panicked"]_vars
    /\ [](runningTasks < 0 => ~Alive /\ runningTasks = -1)

\* A decRunningTasks call made at count 0 has panicked, after the clock
\* had advanced.
C26_Witness ==
    \E g \in Goroutines :
        /\ gpc[g] = "panicked"
        /\ runningTasks = -1
        /\ cpuClock > 0

\* C21: incRLimitNProc returns EAGAIN exactly when the count its increment
\* produced exceeds the limit and the caller holds neither CAP_SYS_ADMIN nor
\* CAP_SYS_RESOURCE, and then its increment is taken back; a capability
\* holder always gets nil and its increment is kept, also above the limit;
\* whenever no call is in progress the counter equals the number of
\* successful increments minus the number of decRLimitNProc calls.
C21_RLimitNProc ==
    /\ \A c \in Callers :
          /\ uc.ret[c] = "EAGAIN" => OverLimit(uc.call[c])
          /\ uc.ret[c] = "nil" => ~OverLimit(uc.call[c])
          /\ uc.ret[c] # "none" /\ (uc.call[c].admin \/ uc.call[c].resource)
                => uc.ret[c] = "nil"
          /\ uc.ret[c] # "none" /\ uc.call[c].nproc > uc.call[c].lim
                /\ ~uc.call[c].admin /\ ~uc.call[c].resource
                => uc.ret[c] = "EAGAIN"
    /\ uc.rlimitNProc =
          (uc.held + Cardinality({c \in Callers : uc.pc[c] = "undo"}))
          % CounterMod

\* With no call in progress: one call failed with EAGAIN, a capability
\* holder's increment above its limit was kept, and the counter shows the
\* kept increments only.
C21_Witness ==
    /\ \A c \in Callers : uc.pc[c] = "idle"
    /\ \E c, d \in Callers :
          /\ uc.ret[c] = "EAGAIN"
          /\ uc.ret[d] = "nil"
          /\ uc.call[d].nproc > uc.call[d].lim
    /\ uc.rlimitNProc = uc.held
    /\ uc.held > 1

\* C24: WaitExited returns only in a state where liveTasks is 0; a call that
\* has set noNewTasksIfZeroLive returns eventually once no task is live;
\* and once a call has returned no task is live ever again: every later
\* attempt to create one is refused.
C24_WaitExited ==
    /\ [][\A c \in Callers :
            tset.wpc[c] # "returned" /\ tset'.wpc[c] = "returned"
            => tset.liveTasks = 0 /\ tset.mu = c]_vars
    /\ [](\A c \in Callers : tset.wpc[c] = "returned" => tset.liveTasks = 0)
    /\ \A c \in Callers :
          (tset.wpc[c] \in {"loop", "wait"} /\ tset.liveTasks = 0)
             ~> (tset.wpc[c] = "returned")

\* Tasks were created and have ended, both calls have returned, and a task
\* creation was refused.
C24_Witness ==
    /\ \A c \in Callers : tset.wpc[c] = "returned"
    /\ tset.created > 1
    /\ tset.refused

\* C22: PopulateNewCgroupHierarchy and ReleaseCgroupHierarchy change the
\* cgroups only of a task whose exit state is TaskExitNone: in every
\* interleaving of walks and exits, the cgroups of a task that is exiting or
\* has exited stay as they were, so such a task is never entered into a new
\* hierarchy.
C22_ExitingTasksSkipped ==
    [][\A t \in Tasks :
         cg'.cgroups[t] # cg.cgroups[t]
         => exitStateLocked(t) = "TaskExitNone"]_vars

\* One task was entered into a hierarchy and then exited; a later walk
\* populated another hierarchy with the live task only.
C22_Witness ==
    \E t, u \in Tasks :
        /\ exitStateLocked(t) # "TaskExitNone"
        /\ exitStateLocked(u) = "TaskExitNone"
        /\ cg.cgroups[t] = {1}
        /\ cg.cgroups[u] = {1, 2}
        /\ \A c \in Callers : cg.walk[c].op = "none"

SaveReturned == save.pc = "idle" /\ save.result # "none"

\* The goroutine SaveTo started for saveMemoryFiles has not finished.
MFGoroutineRunning == save.parallelMfSave /\ save.mfPc # "done"

\* C31: when SaveTo has returned, with success or with any error, time is
\* resumed, the network stack is not paused and extMu is free; while the
\* goroutine running saveMemoryFiles has not finished, SaveTo does not
\* resume time, release extMu or return, and it does so only from its
\* deferred calls, in the order network stack, wait, time, extMu.
C31_SaveToCleansUp ==
    /\ [](SaveReturned => ~timePaused /\ ~save.netPaused /\ extMu = Free)
    /\ [](MFGoroutineRunning =>
             /\ save.pc \notin {"deferResume", "unlock", "idle"}
             /\ timePaused
             /\ extMu \in Callers)
    /\ [][timePaused /\ ~timePaused' =>
             /\ save.pc = "deferResume"
             /\ ~save.netPaused
             /\ ~MFGoroutineRunning]_vars
    /\ [][extMu # Free /\ extMu' = Free =>
             /\ save.pc = "unlock"
             /\ ~timePaused
             /\ ~MFGoroutineRunning]_vars

\* SaveTo returned the error of the kernel-graph save after the goroutine
\* had written memory files to both streams and the network stack had been
\* paused.
C31_Witness ==
    /\ SaveReturned
    /\ save.result = "err.kernel"
    /\ save.parallelMfSave
    /\ saveEnv.netStack
    /\ "net" \in save.done
    /\ save.out.pagesFile # <<>>
    /\ save.mfPc = "done"
(***************************************************************************)
(* C32.  A failure before the first write leaves the streams untouched.    *)
(***************************************************************************)
\* The error SaveTo returns when the failing call is on its own path.
MainError == [f \in MainFaults \ {"none"} |-> "err." \o f]

\* C32: if invalidateUnsavableMappings or vfs.PrepareSave fails, SaveTo
\* returns the error of that call, nothing is ever written to w,
\* pagesMetadata or pagesFile, saveMemoryFiles is started neither in a
\* goroutine nor by SaveTo, and the network stack is never paused.
C32_EarlyFailureWritesNothing ==
    faults.main \in {"invalidate", "prepare"} =>
        /\ save.out = SaveFresh.out
        /\ save.mfPc = "none" /\ save.mfBy = "none" /\ ~save.parallelMfSave
        /\ ~save.netPaused
        /\ save.done \subseteq {"startEvict", "waitEvict", "invalidate"}
        /\ save.result \in {"none", MainError[faults.main]}
        /\ save.pc \in {"deferNet", "deferWait", "deferResume", "unlock"}
              => save.result = MainError[faults.main]

\* SaveTo, called with both page streams, a network stack and private memory
\* files, has returned the error of vfs.PrepareSave.
C32_Witness ==
    /\ SaveReturned
    /\ save.result = "err.prepare"
    /\ "invalidate" \in save.done
    /\ saveEnv.pagesMetadata /\ saveEnv.pagesFile /\ saveEnv.netStack
    /\ saveEnv.mfs # {}
(***************************************************************************)
(* C33.  The order of the steps of LoadFrom.                               *)
(***************************************************************************)
\* The positions of LoadFrom in program order.
LoadPositions ==
    <<"idle", "entry", "cpuid", "check", "kernel", "resetNet", "mf", "clocks",
      "restoreNet", "vfs", "cores", "done">>

\* The place of position pc in the program.
LoadRank(pc) == CHOOSE i \in 1..Len(LoadPositions) : LoadPositions[i] = pc

\* The errors of a LoadFrom that fails before it sets the clocks.
EarlyLoadErrors ==
    {"err.cpuid", "err.incompatible", "err.kernel", "err.mfLoad", "err.mfStart"}

C34_Original ==
    [][InSaveTo => /\ uc'.userCountersMap = uc.userCountersMap
                   /\ cg'.cgroups = cg.cgroups]_vars

\* GetUserCounters has inserted counters for a user and a task has entered
\* a cgroup while SaveTo, holding extMu, is about to save the kernel graph.
C34_Witness ==
    /\ save.pc = "kernel"
    /\ extMu \in Callers
    /\ uc.userCountersMap # {}
    /\ \E t \in Tasks : cg.cgroups[t] # {}
(***************************************************************************)
(* C35.  RebuildTraceContexts.                                             *)
(***************************************************************************)
\* Caller c is inside RebuildTraceContexts.
InRebuild(c) ==
    cpc[c] \in {"RebuildWaitRunning", "RebuildWaitAIO", "RebuildLock",
                "RebuildBody", "RebuildUnpause"}

\* C35: RebuildTraceContexts replaces the trace contexts, holding extMu,
\* only while the kernel is externally stopped, no task goroutine runs and
\* no asynchronous I/O is in flight; the call does not hold extMu when its
\* deferred Unpause asks for it; of the nesting count it changes nothing
\* but one increment on entry and one decrement on return; and every call
\* returns.
C35_RebuildTraceContexts ==
    /\ [](\A c \in Callers :
             cpc[c] = "RebuildBody" =>
                /\ extMu = c
                /\ isExternallyStopped
                /\ runningGoroutines = 0
                /\ aioGoroutines = 0)
    /\ [](\A c \in Callers : cpc[c] = "RebuildUnpause" => extMu # c)
    /\ [](\A c \in Callers : InRebuild(c) => stopCount > 0)
    /\ [](stopCount = pauseCalls - unpauseCalls)
    /\ [][\A c \in Callers :
             cpc'[c] # cpc[c] /\ (InRebuild(c) \/ InRebuild(c)') =>
                stopCount' = stopCount
                               + (IF ~InRebuild(c) THEN 1 ELSE 0)
                               - (IF ~InRebuild(c)' THEN 1 ELSE 0)]_vars
    /\ \A c \in Callers : InRebuild(c) ~> cpc[c] = "idle"

\* RebuildTraceContexts is replacing the trace contexts, all tasks stopped,
\* while another caller's Pause is in effect and its Unpause waits for
\* extMu.
C35_Witness ==
    \E c, d \in Callers :
       /\ cpc[c] = "RebuildBody"
       /\ cpc[d] = "Unpause"
       /\ stopCount = 2
       /\ \A t \in Tasks : tstate[t] = "stopped"
(***************************************************************************)
(* C36.  Context lookups under extMu.                                      *)
(***************************************************************************)
\* Caller c holds lock l.
Holds(c, l) == \E h \in lk.held : h[1] = c /\ h[2] = l

\* C36 as stated: no operation tries to acquire extMu while it already
\* holds it, whatever key is looked up in the context while CreateProcess
\* or Start holds extMu.
C36_Original ==
    \A c \in Callers :
        ~(NextStep(c) = <<"Lock", ExtMuL>> /\ Holds(c, ExtMuL))

\* A caller inside CreateProcess or Start holds extMu and waits for it in
\* GlobalInit or ContainerName; every other caller waits for extMu too, so
\* no operation can take another step.
C36_Witness ==
    /\ \E c \in Callers :
          NextStep(c) = <<"Lock", ExtMuL>> /\ Holds(c, ExtMuL)
    /\ \A c \in Callers : lk.op[c].pc # 0 /\ ~CanTake(c, NextStep(c))

\* ------------------------------------------------------------------------
\* C37. CreateProcess error paths
\* ------------------------------------------------------------------------

\* C37 (as stated): when CreateProcess has returned an error, the task it
\* was to create is not registered in the task set, its thread group is not
\* live, and no reference the call took (the init mount namespace, the
\* FDTable, the UTS, IPC and network namespaces) is still held.
C37_Original ==
    \A t \in Tasks :
        proc.ret[t] \notin {"none", "ok"} =>
            /\ tstate[t] = "none"
            /\ proc.tg[t] # "live"
            /\ proc.refs[t] = {}

\* A CreateProcess without a mount namespace, after the global init exists,
\* failed to find its working directory and returned holding the reference
\* on the init mount namespace.
C37_Witness ==
    \E t \in Tasks :
        /\ proc.globalInit # 0
        /\ proc.ret[t] = "err.wd"
        /\ tstate[t] = "none"
        /\ proc.tg[t] = "none"
        /\ proc.refs[t] = {"mntns"}


\* ------------------------------------------------------------------------
\* C38. incRLimitNProc under concurrent callers
\* ------------------------------------------------------------------------

\* C38 (as stated): a call of incRLimitNProc returns EAGAIN only to a caller
\* without CAP_SYS_ADMIN and CAP_SYS_RESOURCE and only if the number of
\* processes counted for the user (held: successful increments minus
\* decrements) was at least the caller's limit at some point during the
\* call; the increment of another caller that is about to take it back
\* does not count.
C38_Original ==
    \A c \in Callers :
        uc.ret[c] = "EAGAIN" =>
            /\ ~uc.call[c].admin /\ ~uc.call[c].resource
            /\ uc.call[c].peak >= uc.call[c].lim

\* A caller was refused while the user stayed below the caller's limit for
\* the whole call: the counter it read included the increment of another
\* caller with the same limit that had not yet taken it back.
C38_Witness ==
    \E c, d \in Callers :
        /\ c # d
        /\ uc.ret[c] = "EAGAIN"
        /\ uc.call[c].peak < uc.call[c].lim
        /\ uc.call[c].nproc > uc.call[c].lim
        /\ uc.pc[d] = "undo"
        /\ uc.call[d].lim = uc.call[c].lim
        /\ uc.held < uc.call[c].lim


\* ------------------------------------------------------------------------
\* C39. ReleaseCgroupHierarchy
\* ------------------------------------------------------------------------

\* The tasks that hold the cgroup of hierarchy h.
Members(h) == {t \in Tasks : h \in cg.cgroups[t]}

\* The cgroups of hierarchy h that were removed from a task by a call still
\* in progress and whose reference it has not yet dropped.
Pending(h) ==
    {<<c, i>> \in Callers \X (1..Cardinality(Tasks)) :
        /\ i <= Len(cg.walk[c].releasedCGs)
        /\ cg.walk[c].releasedCGs[i] = h}

\* Caller c has done all of ReleaseCgroupHierarchy and is about to return.
ReleaseDone(c) ==
    cg.walk[c].op = "decRef" /\ cg.walk[c].releasedCGs = <<>>

====
